---- MODULE Spec2Model ----
(***************************************************************************)
(* perplexica-mcp: the two tool handlers (perplexica.search and            *)
(* perplexica.health), the error taxonomy and the redaction used when an   *)
(* error is rendered.                                                      *)
(*                                                                         *)
(* Representation of JavaScript values.  A value is a record tagged by t   *)
(* (typeof, with null and array split out).  A string is a sequence of     *)
(* fragments and "" is <<>>; concatenation and template literals are \o.   *)
(* Strings on which the code works character by character (object keys     *)
(* tested by a regular expression, the response body that is sliced, the   *)
(* base URL whose trailing slash is stripped) are given one character per  *)
(* fragment.  An object is the sequence of its own enumerable entries      *)
(* <<key, value>> in insertion order, which is the order Object.entries    *)
(* and JSON.stringify follow.                                              *)
(***************************************************************************)
EXTENDS Integers, Sequences, FiniteSets, TLC

Undefined == [t |-> "undefined"]
Null == [t |-> "null"]
Str(s) == [t |-> "string", v |-> s]
\* A number is the fraction n/d in lowest terms; d = 1 for an integer.
Num(n) == [t |-> "number", n |-> n, d |-> 1]
Frac(n, d) == [t |-> "number", n |-> n, d |-> d]
Bool(b) == [t |-> "boolean", v |-> b]
\* (elements and entries are held as tuples: `\o <<>>` enumerates a function once)
Arr(s) == [t |-> "array", v |-> s \o <<>>]
Obj(entries) == [t |-> "object", v |-> entries \o <<>>]

\* Property names, one character per fragment.
k_query == <<"q", "u", "e", "r", "y">>
k_focusMode == <<"f", "o", "c", "u", "s", "M", "o", "d", "e">>
k_optimizationMode == <<"o", "p", "t", "i", "m", "i", "z", "a", "t", "i", "o", "n", "M", "o", "d", "e">>
k_baseUrl == <<"b", "a", "s", "e", "U", "r", "l">>
k_chatModel == <<"c", "h", "a", "t", "M", "o", "d", "e", "l">>
k_embeddingModel == <<"e", "m", "b", "e", "d", "d", "i", "n", "g", "M", "o", "d", "e", "l">>
k_systemInstructions == <<"s", "y", "s", "t", "e", "m", "I", "n", "s", "t", "r", "u", "c", "t", "i", "o", "n", "s">>
k_history == <<"h", "i", "s", "t", "o", "r", "y">>
k_stream == <<"s", "t", "r", "e", "a", "m">>
k_timeoutMs == <<"t", "i", "m", "e", "o", "u", "t", "M", "s">>
k_provider == <<"p", "r", "o", "v", "i", "d", "e", "r">>
k_name == <<"n", "a", "m", "e">>
k_customOpenAIBaseURL == <<"c", "u", "s", "t", "o", "m", "O", "p", "e", "n", "A", "I", "B", "a", "s", "e", "U", "R", "L">>
k_customOpenAIKey == <<"c", "u", "s", "t", "o", "m", "O", "p", "e", "n", "A", "I", "K", "e", "y">>
k_message == <<"m", "e", "s", "s", "a", "g", "e">>
k_sources == <<"s", "o", "u", "r", "c", "e", "s">>
k_metadata == <<"m", "e", "t", "a", "d", "a", "t", "a">>
k_title == <<"t", "i", "t", "l", "e">>
k_url == <<"u", "r", "l">>
k_models == <<"m", "o", "d", "e", "l", "s">>
k_status == <<"s", "t", "a", "t", "u", "s">>
k_statusText == <<"s", "t", "a", "t", "u", "s", "T", "e", "x", "t">>
k_bodyPreview == <<"b", "o", "d", "y", "P", "r", "e", "v", "i", "e", "w">>
k_args == <<"a", "r", "g", "s">>
k_payload == <<"p", "a", "y", "l", "o", "a", "d">>
k_ok == <<"o", "k">>
k_issues == <<"i", "s", "s", "u", "e", "s">>
k_messageLength == <<"m", "e", "s", "s", "a", "g", "e", "L", "e", "n", "g", "t", "h">>
k_sourcesCount == <<"s", "o", "u", "r", "c", "e", "s", "C", "o", "u", "n", "t">>
k_providers == <<"p", "r", "o", "v", "i", "d", "e", "r", "s">>
k_count == <<"c", "o", "u", "n", "t">>
k_Authorization == <<"A", "u", "t", "h", "o", "r", "i", "z", "a", "t", "i", "o", "n">>
k_code == <<"c", "o", "d", "e">>

\* v[k] for an object v: the value of the entry named k, undefined without one.
Has(v, k) == v.t = "object" /\ \E j \in 1..Len(v.v) : v.v[j][1] = k
Get(v, k) ==
  IF Has(v, k) THEN v.v[CHOOSE j \in 1..Len(v.v) : v.v[j][1] = k][2] ELSE Undefined

\* JavaScript truthiness (ToBoolean).
Truthy(v) ==
  CASE v.t = "undefined" -> FALSE
    [] v.t = "null" -> FALSE
    [] v.t = "string" -> v.v # <<>>
    [] v.t = "number" -> v.n # 0
    [] v.t = "boolean" -> v.v
    [] OTHER -> TRUE

\* a ?? b
Nullish(v) == v.t \in {"undefined", "null"}
Coalesce(a, b) == IF Nullish(a) THEN b ELSE a

\* `${x}` for a number.
NumText(v) ==
  IF v.d = 1 THEN <<ToString(v.n)>> ELSE <<ToString(v.n), "/", ToString(v.d)>>

\* The concatenation of a sequence of strings (halving keeps the recursion shallow)
RECURSIVE Flatten(_)
Flatten(ss) ==
  LET items == ss \o <<>>
  IN  IF Len(items) = 0 THEN <<>>
      ELSE IF Len(items) = 1 THEN items[1]
      ELSE LET mid == Len(items) \div 2
           IN  Flatten(SubSeq(items, 1, mid))
                 \o Flatten(SubSeq(items, mid + 1, Len(items)))

\* Array.prototype.join
join(ss, sep) ==
  LET items == ss \o <<>>
  IN  IF Len(items) = 0 THEN <<>>
      ELSE Flatten([j \in 1..(2 * Len(items) - 1) |->
                     IF j % 2 = 1 THEN items[(j + 1) \div 2] ELSE sep])

\* String.prototype.slice(0, n)
slice0(s, n) == SubSeq(s, 1, IF Len(s) < n THEN Len(s) ELSE n)

-----------------------------------------------------------------------------
(* logger.ts: redact *)

UpperCase == <<"A","B","C","D","E","F","G","H","I","J","K","L","M",
               "N","O","P","Q","R","S","T","U","V","W","X","Y","Z">>
LowerCase == <<"a","b","c","d","e","f","g","h","i","j","k","l","m",
               "n","o","p","q","r","s","t","u","v","w","x","y","z">>
ToLower(c) ==
  IF \E j \in 1..Len(UpperCase) : UpperCase[j] = c
  THEN LowerCase[CHOOSE j \in 1..Len(UpperCase) : UpperCase[j] = c]
  ELSE c

Includes(s, w) ==
  LET text == s \o <<>>
  IN  \E j \in 1..(Len(text) - Len(w) + 1) : SubSeq(text, j, j + Len(w) - 1) = w

\* /key|token|secret|password|authorization/i
SecretWords ==
  { <<"k","e","y">>, <<"t","o","k","e","n">>, <<"s","e","c","r","e","t">>,
    <<"p","a","s","s","w","o","r","d">>,
    <<"a","u","t","h","o","r","i","z","a","t","i","o","n">> }
\* The pattern without its i flag
SecretKeyCaseSensitive(k) == \E w \in SecretWords : Includes(k, w)

SecretKey(k) ==
  \E w \in SecretWords : Includes([j \in 1..Len(k) |-> ToLower(k[j])], w)

\* The walk without its history branch
RECURSIVE walkKeepsHistory(_)
walkKeepsHistory(v) ==
  CASE v.t = "array" -> Arr([j \in 1..Len(v.v) |-> walkKeepsHistory(v.v[j])])
    [] v.t = "object" ->
         Obj([j \in 1..Len(v.v) |->
               LET k == v.v[j][1]
                   val == v.v[j][2]
               IN  IF SecretKey(k) THEN <<k, Str(<<"[REDACTED]">>)>>
                   ELSE <<k, walkKeepsHistory(val)>>])
    [] OTHER -> v

\* The walk with a history summarised whatever it holds
RECURSIVE walkAnyHistory(_)
walkAnyHistory(v) ==
  CASE v.t = "array" -> Arr([j \in 1..Len(v.v) |-> walkAnyHistory(v.v[j])])
    [] v.t = "object" ->
         Obj([j \in 1..Len(v.v) |->
               LET k == v.v[j][1]
                   val == v.v[j][2]
               IN  IF SecretKey(k) THEN <<k, Str(<<"[REDACTED]">>)>>
                   ELSE IF k = k_history
                        THEN <<k, Str(<<"len=",
                                        IF val.t \in {"array", "string"}
                                        THEN ToString(Len(val.v))
                                        ELSE "undefined">>)>>
                        ELSE <<k, walkAnyHistory(val)>>])
    [] OTHER -> v

\* The values the handlers pass to redact are trees (parsed JSON, object
\* literals), so no object is met twice and `seen` never answers true.
RECURSIVE walk(_)
walk(v) ==
  CASE v.t = "array" -> Arr([j \in 1..Len(v.v) |-> walk(v.v[j])])
    [] v.t = "object" ->
         Obj([j \in 1..Len(v.v) |->
               LET k == v.v[j][1]
                   val == v.v[j][2]
               IN  IF SecretKey(k) THEN <<k, Str(<<"[REDACTED]">>)>>
                   ELSE IF k = k_history /\ val.t = "array"
                        THEN <<k, Str(<<"len=", ToString(Len(val.v))>>)>>
                        ELSE <<k, walk(val)>>])
    [] OTHER -> v

redact(value) == walk(value)

-----------------------------------------------------------------------------
(* JSON.stringify *)

JsonEscape(s) ==
  Flatten([j \in 1..Len(s) |->
            CASE s[j] = "\"" -> <<"\\", "\"">>
              [] s[j] = "\\" -> <<"\\", "\\">>
              [] s[j] = "\n" -> <<"\\", "n">>
              [] OTHER -> <<s[j]>>])

RECURSIVE stringify(_)
stringify(v) ==
  CASE v.t = "string" -> <<"\"">> \o JsonEscape(v.v) \o <<"\"">>
    [] v.t = "number" -> NumText(v)
    [] v.t = "boolean" -> <<IF v.v THEN "true" ELSE "false">>
    [] v.t = "array" ->
         <<"[">> \o join([j \in 1..Len(v.v) |->
                           IF v.v[j].t = "undefined" THEN <<"null">>
                           ELSE stringify(v.v[j])], <<",">>) \o <<"]">>
    [] v.t = "object" ->
         LET Defined(e) == e[2].t # "undefined"
             kept == SelectSeq(v.v, Defined)
         IN  <<"{">> \o join([j \in 1..Len(kept) |->
                               <<"\"">> \o JsonEscape(kept[j][1]) \o <<"\"", ":">>
                                 \o stringify(kept[j][2])], <<",">>) \o <<"}">>
    [] OTHER -> <<"null">>

-----------------------------------------------------------------------------
(* ErrorCode, errorResult *)

ErrorCode ==
  {"VALIDATION_ERROR", "TIMEOUT", "NETWORK_ERROR", "UPSTREAM_ERROR",
   "UPSTREAM_INVALID_JSON"}

\* A ToolResult.  isError = FALSE stands for a result without the isError flag.
ToolResult(isError, text) ==
  [isError |-> isError, content |-> << [type |-> "text", text |-> text] >>]

\* errorResult without the dump of the details
errorResultNoDetails(code, message, details) ==
  ToolResult(TRUE, <<"[", code, "] ">> \o message)

errorResult(code, message, details) ==
  LET head == <<"[", code, "] ">> \o message
      lines == IF details.t = "object" /\ Len(details.v) > 0
               THEN <<head, <<>>, <<"Details:">>, stringify(redact(details))>>
               ELSE <<head>>
  IN  ToolResult(TRUE, join(lines, <<"\n">>))

-----------------------------------------------------------------------------
(* Process configuration and per-invocation state *)

NumInvocations == 2
Invocations == 1..NumInvocations

VARIABLES
  MCP_REQUEST_TIMEOUT_MS, \* Number(process.env.MCP_REQUEST_TIMEOUT_MS)
  PERPLEXICA_BASE_URL,    \* process.env.PERPLEXICA_BASE_URL
  MCP_LOG_LEVEL,          \* process.env.MCP_LOG_LEVEL
  admitted,               \* the invocations the transport hands to a handler
  handler,                \* which registered callback runs the invocation
  rawArgs,                \* the arguments it was called with
  pc,                     \* where the callback is suspended
  url,                    \* url / modelsUrl
  baseUrlUsed,            \* baseUrl
  timeout,                \* the delay given to setTimeout
  timer,                  \* tid: "none", "pending", "cleared" or "fired"
  aborted,                \* ac.signal.aborted
  requests,               \* the HTTP requests the invocation has issued
  res,                    \* the Response fetch resolved with
  bodyRead,               \* what reading the response body gave
  caught,                 \* the exception the outer catch received
  result,                 \* the ToolResult returned
  thrown,                 \* the exception that left the callback
  logs,                   \* the lines the invocation wrote with console.error
  heap,                   \* the objects a directly logged value is made of
  lastLog                 \* the last direct call of log and what it gave

vars ==
  <<MCP_REQUEST_TIMEOUT_MS, PERPLEXICA_BASE_URL, MCP_LOG_LEVEL, admitted, handler,
    rawArgs, pc, url, baseUrlUsed, timeout, timer, aborted, requests, res, bodyRead,
    caught, result, thrown, logs, heap, lastLog>>

NaN == [t |-> "number", n |-> 0, d |-> 0]

DEFAULT_TIMEOUT_MS ==
  IF Truthy(MCP_REQUEST_TIMEOUT_MS) THEN MCP_REQUEST_TIMEOUT_MS ELSE Num(120000)

LOCALHOST == <<"h", "t", "t", "p", ":", "/", "/", "l", "o", "c", "a", "l", "h", "o", "s", "t", ":", "3", "0", "0", "0">>
defaultBaseUrl ==
  IF Truthy(PERPLEXICA_BASE_URL) THEN PERPLEXICA_BASE_URL ELSE Str(LOCALHOST)

\* a || b || c on the base URL
baseUrlOf(argsBaseUrl) ==
  IF Truthy(argsBaseUrl) THEN argsBaseUrl ELSE defaultBaseUrl

\* s.replace(/\/$/, "")
stripTrailingSlash(s) ==
  IF s # <<>> /\ s[Len(s)] = "/" THEN SubSeq(s, 1, Len(s) - 1) ELSE s

API_SEARCH == <<"/", "a", "p", "i", "/", "s", "e", "a", "r", "c", "h">>
API_MODELS == <<"/", "a", "p", "i", "/", "m", "o", "d", "e", "l", "s">>

-----------------------------------------------------------------------------
(* logger.ts: redact on values held by reference *)

\* A value that can hold a cycle is a reference into a store of objects. An
\* object of the store is an array or a plain object; the value of an entry
\* is a primitive or a reference. An array's entries have the empty key.
NumObjects == 2
Objects == 1..NumObjects

Ref(id) == [t |-> "ref", id |-> id]
EmptyObject == [array |-> FALSE, entries |-> <<>>]
EmptyArray == [array |-> TRUE, entries |-> <<>>]
Circular == Str(<<"[Circular]">>)

\* The frames the engine gives a recursion before it raises RangeError: more
\* than the walk of NumObjects objects needs, which is NumObjects + 1, and
\* more than the arguments and payloads of the handlers nest
MaxStack == NumObjects + 2
RangeError == [name |-> "RangeError",
               message |-> Str(<<"Maximum call stack size exceeded">>),
               cause |-> Undefined, code |-> Undefined]
\* JSON.stringify of a value that holds a cycle
TypeError == [name |-> "TypeError",
              message |-> Str(<<"Converting circular structure to JSON">>),
              cause |-> Undefined, code |-> Undefined]

Walked(out, h, seen) == [out |-> out, heap |-> h, seen |-> seen, raised |-> FALSE]
Overflow(h, seen) == [out |-> Undefined, heap |-> h, seen |-> seen, raised |-> TRUE]

\* A test that never finds the object
hasNever(seen, v) == FALSE
\* seen.has(v)
has(seen, v) == v.id \in seen

\* The object that is being read, taken as the one to write to
sameObject(h, v) == [heap |-> h, id |-> v.id]
\* const out = {}
newObject(h, v) == [heap |-> Append(h, EmptyObject), id |-> Len(h) + 1]

\* out[k] = val
assign(h, id, k, val) ==
  LET entries == h[id].entries
      at == {j \in 1..Len(entries) : entries[j][1] = k}
  IN  [h EXCEPT ![id].entries =
         IF at = {} THEN Append(entries, <<k, val>>)
         ELSE [j \in 1..Len(entries) |-> IF j \in at THEN <<k, val>> ELSE entries[j]]]

isArray(h, v) == v.t = "ref" /\ h[v.id].array

\* The one element of a singleton; `Only({ e : r \in {x} })` is e with x
\* computed once, however often e names r
Only(S) == CHOOSE y \in S : TRUE

RECURSIVE walkRef(_, _, _, _)
RECURSIVE forEntries(_, _, _, _, _, _)
RECURSIVE mapWalk(_, _, _, _, _, _)

\* for (const [k, val] of Object.entries(v)): the entries are those v had
\* when the loop began; j is the next one
forEntries(h, entries, out, j, seen, depth) ==
  IF j > Len(entries) THEN Walked(Ref(out), h, seen)
  ELSE LET k == entries[j][1]
           val == entries[j][2]
       IN  IF SecretKey(k)
           THEN forEntries(assign(h, out, k, Str(<<"[REDACTED]">>)),
                           entries, out, j + 1, seen, depth)
           ELSE IF k = k_history /\ isArray(h, val)
           THEN forEntries(assign(h, out, k,
                                  Str(<<"len=", ToString(Len(h[val.id].entries))>>)),
                           entries, out, j + 1, seen, depth)
           ELSE Only({ IF r.raised THEN r
                       ELSE forEntries(assign(r.heap, out, k, r.out),
                                       entries, out, j + 1, r.seen, depth) :
                       r \in {walkRef(h, val, seen, depth)} })

\* v.map(walk): element j is read from v when its turn comes; the results
\* go to a new array
mapWalk(h, v, j, acc, seen, depth) ==
  IF j > Len(h[v.id].entries)
  THEN Walked(Ref(Len(h) + 1),
              Append(h, [array |-> TRUE, entries |-> acc]), seen)
  ELSE Only({ IF r.raised THEN r
              ELSE mapWalk(r.heap, v, j + 1, Append(acc, <<<<>>, r.out>>),
                           r.seen, depth) :
              r \in {walkRef(h, h[v.id].entries[j][2], seen, depth)} })

\* walk(v), called with depth frames on the stack
walkRef(h, v, seen, depth) ==
  IF v.t # "ref" THEN Walked(v, h, seen)
  ELSE IF depth >= MaxStack THEN Overflow(h, seen)
  ELSE IF has(seen, v) THEN Walked(Circular, h, seen)
  ELSE IF h[v.id].array THEN mapWalk(h, v, 1, <<>>, seen \cup {v.id}, depth + 1)
  ELSE Only({ forEntries(out.heap, h[v.id].entries, out.id, 1,
                         seen \cup {v.id}, depth + 1) :
              out \in {newObject(h, v)} })

\* redact(value): const seen = new WeakSet(); return walk(value)
redactRef(h, value) == walkRef(h, value, {}, 0)

\* Whether following references from v can go on for more than fuel steps
RECURSIVE Deeper(_, _, _)
Deeper(h, v, fuel) ==
  /\ v.t = "ref"
  /\ \/ fuel = 0
     \/ \E j \in 1..Len(h[v.id].entries) : Deeper(h, h[v.id].entries[j][2], fuel - 1)

\* The value a reference to an object that holds no cycle stands for
RECURSIVE Unfold(_, _)
Unfold(h, v) ==
  IF v.t # "ref" THEN v
  ELSE IF h[v.id].array
  THEN Arr([j \in 1..Len(h[v.id].entries) |-> Unfold(h, h[v.id].entries[j][2])])
  ELSE Obj([j \in 1..Len(h[v.id].entries) |->
             <<h[v.id].entries[j][1], Unfold(h, h[v.id].entries[j][2])>>])

\* The store that holds value v after the objects of h, and v as that store
\* holds it: a reference for an object or an array
RECURSIVE Stored(_, _)
RECURSIVE StoredEach(_, _, _, _)
StoredEach(h, v, j, acc) ==
  IF j > Len(v.v) THEN [heap |-> h, entries |-> acc]
  ELSE LET k == IF v.t = "array" THEN <<>> ELSE v.v[j][1]
       IN  Only({ StoredEach(r.heap, v, j + 1, Append(acc, <<k, r.ref>>)) :
                  r \in {Stored(h, IF v.t = "array" THEN v.v[j] ELSE v.v[j][2])} })
Stored(h, v) ==
  IF v.t \notin {"array", "object"} THEN [heap |-> h, ref |-> v]
  ELSE Only({ [heap |-> [r.heap EXCEPT ![Len(h) + 1] =
                           [array |-> v.t = "array", entries |-> r.entries]],
               ref |-> Ref(Len(h) + 1)] :
              r \in {StoredEach(Append(h, EmptyObject), v, 1, <<>>)} })

\* What a variable that held v holds once redact(v) has returned: the caller
\* keeps its reference, and reads the object as walk left it
afterRedact(v) ==
  Only({ Unfold(redactRef(given.heap, given.ref).heap, given.ref) :
         given \in {Stored(<<>>, v)} })

-----------------------------------------------------------------------------
(* logger: LEVELS, THRESHOLD, log *)

LEVELS == [error |-> 0, warn |-> 1, info |-> 2, debug |-> 3]

\* (process.env.MCP_LOG_LEVEL as Level) || "info"
levelFromEnv == IF Truthy(MCP_LOG_LEVEL) THEN MCP_LOG_LEVEL.v ELSE <<"info">>

\* Names every object literal inherits from Object.prototype
ObjectPrototype == {"constructor", "toString", "valueOf", "hasOwnProperty", "__proto__"}
\* LEVELS[name]: the level's number, an inherited member, or undefined
LevelsGet(name) ==
  IF Len(name) = 1 /\ name[1] \in DOMAIN LEVELS THEN Num(LEVELS[name[1]])
  ELSE IF Len(name) = 1 /\ name[1] \in ObjectPrototype THEN [t |-> "function"]
  ELSE Undefined

\* LEVELS[levelFromEnv] ?? LEVELS.info
THRESHOLD == Coalesce(LevelsGet(levelFromEnv), Num(LEVELS.info))

\* a > b for a number a: false when b does not convert to a number
GreaterThan(a, b) == b.t = "number" /\ b.d = 1 /\ a.n > b.n

\* (LEVELS[level] ?? 99) > THRESHOLD
aboveThreshold(level) ==
  GreaterThan(Coalesce(LevelsGet(<<level>>), Num(99)), THRESHOLD)

\* new Date().toISOString(): the text of the clock, whatever it reads
isoNow == "<isoNow>"

toUpperCase == [error |-> "ERROR", warn |-> "WARN", info |-> "INFO", debug |-> "DEBUG"]

\* log(level, msg, meta): the lines it hands to console.error, none when the
\* level is above THRESHOLD
log(level, msg, meta) ==
  IF aboveThreshold(level) THEN <<>>
  ELSE IF meta.t # "undefined"
  THEN << <<"[", isoNow, "] ", toUpperCase[level], " ">> \o msg \o <<" ::", " ">>
            \o stringify(redact(meta)) >>
  ELSE << <<"[", isoNow, "] ", toUpperCase[level], " ">> \o msg >>

\* A logger call: the lines it emits, each kept with the data the call
\* carries (carried is meta as it was before the callback's own redact)
entry(level, msg, meta, carried) ==
  IF aboveThreshold(level) THEN <<>>
  ELSE << [line |-> log(level, msg, meta)[1], carried |-> carried] >>
logged(level, msg, meta) == entry(level, msg, meta, meta)

-----------------------------------------------------------------------------
(* zod: inputShape, InputSchema, HealthInputSchema *)

focusModeEnum ==
  { <<"webSearch">>, <<"academicSearch">>, <<"writingAssistant">>,
    <<"wolframAlphaSearch">>, <<"youtubeSearch">>, <<"redditSearch">> }
optimizationModeEnum == { <<"speed">>, <<"balanced">> }
roleEnum == { <<"human">>, <<"assistant">> }

isString(v) == v.t = "string"
optionalString(v) == v.t = "undefined" \/ isString(v)
isEnum(v, E) == v.t = "string" /\ v.v \in E
\* z.number().int().nonnegative()
isNonNegativeInt(v) == v.t = "number" /\ v.d = 1 /\ v.n >= 0

\* z.number().int().positive()
isPositiveInt(v) == v.t = "number" /\ v.d = 1 /\ v.n > 0
\* .default(d): an undefined input is replaced by d, which the inner schema
\* then checks like any other input
withDefault(v, d) == IF v.t = "undefined" THEN d ELSE v

\* A default that the inner schema is not asked about
timeoutMsTrustsDefault(v) == v.t = "undefined" \/ isPositiveInt(v)
\* timeoutMs: z.number().int().positive().default(DEFAULT_TIMEOUT_MS)
timeoutMsSchema(v) == isPositiveInt(withDefault(v, DEFAULT_TIMEOUT_MS))

\* z.object without passthrough: keeps the shape's keys that the input has
strip(v, keys) ==
  LET InInput(k) == Has(v, k)
      kept == SelectSeq(keys, InInput)
  IN  Obj([j \in 1..Len(kept) |-> <<kept[j], Get(v, kept[j])>>])

chatModelKeys == <<k_provider, k_name, k_customOpenAIBaseURL, k_customOpenAIKey>>
embeddingModelKeys == <<k_provider, k_name>>

isModel(v, keys) ==
  v.t = "object" /\ \A j \in 1..Len(keys) : optionalString(Get(v, keys[j]))
isHistory(v) ==
  /\ v.t = "array"
  /\ \A j \in 1..Len(v.v) :
       /\ v.v[j].t = "array"
       /\ Len(v.v[j].v) = 2
       /\ isEnum(v.v[j].v[1], roleEnum)
       /\ isString(v.v[j].v[2])

InputSchema(raw) ==
  LET data ==
        [ query |-> Get(raw, k_query),
          focusMode |-> withDefault(Get(raw, k_focusMode), Str(<<"webSearch">>)),
          optimizationMode |->
            withDefault(Get(raw, k_optimizationMode), Str(<<"balanced">>)),
          baseUrl |-> withDefault(Get(raw, k_baseUrl), defaultBaseUrl),
          chatModel |->
            IF Get(raw, k_chatModel).t = "object"
            THEN strip(Get(raw, k_chatModel), chatModelKeys)
            ELSE Get(raw, k_chatModel),
          embeddingModel |->
            IF Get(raw, k_embeddingModel).t = "object"
            THEN strip(Get(raw, k_embeddingModel), embeddingModelKeys)
            ELSE Get(raw, k_embeddingModel),
          systemInstructions |-> Get(raw, k_systemInstructions),
          history |-> Get(raw, k_history),
          stream |-> withDefault(Get(raw, k_stream), Bool(FALSE)),
          timeoutMs |-> withDefault(Get(raw, k_timeoutMs), DEFAULT_TIMEOUT_MS) ]
      success ==
        /\ raw.t = "object"
        /\ isString(data.query)
        /\ isEnum(data.focusMode, focusModeEnum)
        /\ isEnum(data.optimizationMode, optimizationModeEnum)
        /\ isString(data.baseUrl)
        /\ data.chatModel.t = "undefined" \/ isModel(data.chatModel, chatModelKeys)
        /\ \/ data.embeddingModel.t = "undefined"
           \/ isModel(data.embeddingModel, embeddingModelKeys)
        /\ optionalString(data.systemInstructions)
        /\ data.history.t = "undefined" \/ isHistory(data.history)
        /\ data.stream.t = "boolean"
        /\ timeoutMsSchema(Get(raw, k_timeoutMs))
  IN  [success |-> success, data |-> data]

HealthInputSchema(raw) ==
  LET data ==
        [ baseUrl |-> withDefault(Get(raw, k_baseUrl), defaultBaseUrl),
          timeoutMs |-> withDefault(Get(raw, k_timeoutMs), DEFAULT_TIMEOUT_MS) ]
      success ==
        /\ raw.t = "object"
        /\ isString(data.baseUrl)
        /\ timeoutMsSchema(Get(raw, k_timeoutMs))
  IN  [success |-> success, data |-> data]

-----------------------------------------------------------------------------
(* zod: SourceSchema, SearchResponseSchema, ModelsResponseSchema *)

metadataKeys == <<k_title, k_url>>

SourceSchema(s) ==
  LET md == Get(s, k_metadata)
      success ==
        /\ s.t = "object"
        /\ \/ md.t = "undefined"
           \/ /\ md.t = "object"
              /\ optionalString(Get(md, k_title))
              /\ optionalString(Get(md, k_url))
      \* passthrough on the source, the default strip on its metadata
      data ==
        Obj([j \in 1..Len(s.v) |->
              IF s.v[j][1] = k_metadata /\ s.v[j][2].t = "object"
              THEN <<k_metadata, strip(s.v[j][2], metadataKeys)>>
              ELSE s.v[j]])
  IN  [success |-> success, data |-> IF success THEN data ELSE Undefined]

SearchResponseSchema(json) ==
  LET srcs == Get(json, k_sources)
      success ==
        /\ json.t = "object"
        /\ optionalString(Get(json, k_message))
        /\ \/ srcs.t = "undefined"
           \/ /\ srcs.t = "array"
              /\ \A j \in 1..Len(srcs.v) : SourceSchema(srcs.v[j]).success
      data ==
        Obj([j \in 1..Len(json.v) |->
              IF json.v[j][1] = k_sources
              THEN <<k_sources,
                     Arr([n \in 1..Len(srcs.v) |-> SourceSchema(srcs.v[n]).data])>>
              ELSE json.v[j]])
  IN  [success |-> success, data |-> IF success THEN data ELSE Undefined]

ModelsResponseSchema(json) ==
  LET models == Get(json, k_models)
      success ==
        /\ json.t = "object"
        /\ \/ models.t = "undefined"
           \/ /\ models.t = "object"
              /\ \A j \in 1..Len(models.v) : models.v[j][2].t = "array"
  IN  [success |-> success, data |-> IF success THEN json ELSE Undefined]

-----------------------------------------------------------------------------
(* Rendering of a successful response *)

\* `${v}`
RECURSIVE template(_)
template(v) ==
  CASE v.t = "string" -> v.v
    [] v.t = "number" -> NumText(v)
    [] v.t = "boolean" -> <<IF v.v THEN "true" ELSE "false">>
    [] v.t = "null" -> <<"null">>
    [] v.t = "undefined" -> <<"undefined">>
    [] v.t = "array" ->
         join([j \in 1..Len(v.v) |->
                IF Nullish(v.v[j]) THEN <<>> ELSE template(v.v[j])], <<",">>)
    [] OTHER -> <<"[object Object]">>

\* The source lines numbered by the index itself
formatSourcesZeroBased(sources) ==
  join([j \in 1..Len(sources) |->
         LET md == Get(sources[j], k_metadata)
         IN  <<ToString(j - 1), ". **">>
               \o template(Coalesce(Get(md, k_title), Str(<<"Untitled">>)))
               \o <<"**: ">>
               \o template(Coalesce(Get(md, k_url), Str(<<>>)))],
       <<"\n">>)

\* sources.map((s, i) => `${i + 1}. **${title ?? "Untitled"}**: ${url ?? ""}`).join("\n")
formatSources(sources) ==
  join([j \in 1..Len(sources) |->
         LET md == Get(sources[j], k_metadata)
         IN  <<ToString(j), ". **">>
               \o template(Coalesce(Get(md, k_title), Str(<<"Untitled">>)))
               \o <<"**: ">>
               \o template(Coalesce(Get(md, k_url), Str(<<>>)))],
       <<"\n">>)

\* The rendering without the fallback text
formatSearchNoFallback(data) ==
  LET message == Coalesce(Get(data, k_message), Str(<<>>))
      sources == IF Get(data, k_sources).t = "array" THEN Get(data, k_sources).v
                 ELSE <<>>
      formattedSources == formatSources(sources)
      body == IF formattedSources # <<>>
              THEN template(message) \o <<"\n\n---\n\nSources:\n">> \o formattedSources
              ELSE template(message)
  IN  ToolResult(FALSE, body)

\* The rendering headed by the number of results returned before it
formatSearchNumbered(data) ==
  LET message == Coalesce(Get(data, k_message), Str(<<>>))
      calls == Cardinality({i \in Invocations : pc[i] = "returned"})
  IN  ToolResult(FALSE, <<"#", ToString(calls), " ">> \o template(message))

\* From `const message` to the returned result; data is the object the
\* message and the sources are read from.
formatSearch(data) ==
  LET message == Coalesce(Get(data, k_message), Str(<<>>))
      sources == IF Get(data, k_sources).t = "array" THEN Get(data, k_sources).v
                 ELSE <<>>
      formattedSources == formatSources(sources)
      body == IF formattedSources # <<>>
              THEN template(message) \o <<"\n\n---\n\nSources:\n">> \o formattedSources
              ELSE IF Truthy(message) THEN template(message)
              ELSE <<"No message returned.">>
  IN  ToolResult(FALSE, body)

\* Object.keys and v[p], for the values a models field can hold
keysOf(v) ==
  CASE v.t = "object" -> [j \in 1..Len(v.v) |-> v.v[j][1]]
    [] v.t = "array" -> [j \in 1..Len(v.v) |-> <<ToString(j - 1)>>]
    [] OTHER -> <<>>
member(v, p) ==
  CASE v.t = "object" -> Get(v, p)
    [] v.t = "array" ->
         LET at == {j \in 1..Len(v.v) : <<ToString(j - 1)>> = p}
         IN  IF at = {} THEN Undefined ELSE v.v[CHOOSE j \in at : TRUE]
    [] OTHER -> Undefined

RECURSIVE countModels(_, _)
countModels(models, providers) ==
  IF providers = <<>> THEN 0
  ELSE (IF member(models, Head(providers)).t = "array"
        THEN Len(member(models, Head(providers)).v) ELSE 0)
       + countModels(models, Tail(providers))

\* From `const providers` to the returned result; models is the value whose
\* keys are taken.
formatHealth(models, baseUrl) ==
  LET providers == keysOf(models)
      count == countModels(models, providers)
  IN  ToolResult(FALSE,
        <<"OK: reachable at ">> \o baseUrl
          \o <<". Providers: ", ToString(Len(providers)), ", total models: ",
               ToString(count), ".">>)

-----------------------------------------------------------------------------
(* The handlers.  "search" and "health" are the callbacks that classify     *)
(* failures with an ErrorCode; "server.search" and "server.health" are the  *)
(* callbacks registered by src/server.ts.                                   *)

Handlers == {"search", "health", "server.search", "server.health"}

NoResult == [isError |-> FALSE, content |-> <<>>]
NoError == [name |-> "none", message |-> Undefined, cause |-> Undefined,
            code |-> Undefined]
NoResponse == [status |-> 0, statusText |-> <<>>]
NoBody == [kind |-> "none", text |-> <<>>, json |-> Undefined, error |-> NoError]
TextBody(text) == [kind |-> "text", text |-> text, json |-> Undefined, error |-> NoError]
JsonBody(json) == [kind |-> "json", text |-> <<>>, json |-> json, error |-> NoError]
FailedBody(err) == [kind |-> "failed", text |-> <<>>, json |-> Undefined, error |-> err]

\* The exception InputSchema.parse / HealthInputSchema.parse throws
ZodError == [name |-> "ZodError", message |-> Str(<<"invalid input">>),
             cause |-> Undefined, code |-> Undefined]

\* What the synchronous part of a callback, up to its first await, leaves.
Outcome(p, u, b, t, tm, rq, r, e) ==
  [pc |-> p, url |-> u, baseUrl |-> b, timeout |-> t, timer |-> tm,
   requests |-> rq, result |-> r, thrown |-> e]
Throws(e) ==
  Outcome("thrown", <<>>, <<>>, Undefined, "none", <<>>, NoResult, e)
Returns(r, u, b) ==
  Outcome("returned", u, b, Undefined, "none", <<>>, r, NoError)
\* The call issued again after the first one
FetchesTwice(rq, u, b, t) ==
  Outcome("awaitFetch", u, b, t, "pending", <<rq, rq>>, NoResult, NoError)

\* new AbortController(); setTimeout(() => ac.abort(), t); await fetch(...)
Fetches(rq, u, b, t) ==
  Outcome("awaitFetch", u, b, t, "pending", <<rq>>, NoResult, NoError)

Request(method, u, headers, payload) ==
  [method |-> method, url |-> u, headers |-> headers, payload |-> payload,
   body |-> IF payload.t = "undefined" THEN <<>> ELSE stringify(payload)]

\* if (v) payload[k] = v
attach(k, v) == IF Truthy(v) THEN << <<k, v>> >> ELSE <<>>

JsonHeaders == << <<"Content-Type", "application/json">> >>

\* The payload with the modes' defaults whatever the caller chose
searchPayloadDefaultModes(args) ==
  Obj(<< <<k_query, args.query>>,
         <<k_focusMode, Str(<<"webSearch">>)>>,
         <<k_optimizationMode, Str(<<"balanced">>)>>,
         <<k_stream, Bool(FALSE)>> >>
      \o attach(k_chatModel, args.chatModel)
      \o attach(k_embeddingModel, args.embeddingModel)
      \o attach(k_systemInstructions, args.systemInstructions)
      \o attach(k_history, args.history))

searchPayloadStream(args) ==
  Obj(<< <<k_query, args.query>>,
         <<k_focusMode, args.focusMode>>,
         <<k_optimizationMode, args.optimizationMode>>,
         <<k_stream, args.stream>> >>
      \o attach(k_chatModel, args.chatModel)
      \o attach(k_embeddingModel, args.embeddingModel)
      \o attach(k_systemInstructions, args.systemInstructions)
      \o attach(k_history, args.history))

searchPayload(args) ==
  Obj(<< <<k_query, args.query>>,
         <<k_focusMode, args.focusMode>>,
         <<k_optimizationMode, args.optimizationMode>>,
         <<k_stream, Bool(FALSE)>> >>
      \o attach(k_chatModel, args.chatModel)
      \o attach(k_embeddingModel, args.embeddingModel)
      \o attach(k_systemInstructions, args.systemInstructions)
      \o attach(k_history, args.history))

search(raw) ==
  LET parsed == InputSchema(afterRedact(raw))
      args == parsed.data
      baseUrl == baseUrlOf(args.baseUrl).v
      u == stripTrailingSlash(baseUrl) \o API_SEARCH
  IN  IF ~parsed.success THEN Throws(ZodError)
      ELSE IF ~Truthy(args.query)
      THEN Returns(errorResult("VALIDATION_ERROR",
                               <<"Missing required field: query">>, Undefined),
                   u, baseUrl)
      ELSE Fetches(Request("POST", u, JsonHeaders, afterRedact(searchPayload(args))),
                   u, baseUrl,
                   Coalesce(args.timeoutMs, DEFAULT_TIMEOUT_MS))

health(raw) ==
  LET parsed == HealthInputSchema(afterRedact(raw))
      args == parsed.data
      baseUrl == baseUrlOf(args.baseUrl).v
      u == stripTrailingSlash(baseUrl) \o API_MODELS
  IN  IF ~parsed.success THEN Throws(ZodError)
      ELSE Fetches(Request("GET", u, <<>>, Undefined), u, baseUrl,
                   Coalesce(args.timeoutMs, DEFAULT_TIMEOUT_MS))

\* src/server.ts reads the arguments it is given, without parsing them
serverSearchPayload(args) ==
  Obj(<< <<k_query, Get(args, k_query)>>,
         <<k_focusMode,
           IF Truthy(Get(args, k_focusMode)) THEN Get(args, k_focusMode)
           ELSE Str(<<"webSearch">>)>>,
         <<k_optimizationMode,
           Coalesce(Get(args, k_optimizationMode), Str(<<"balanced">>))>>,
         <<k_stream, Bool(FALSE)>> >>
      \o attach(k_chatModel, Get(args, k_chatModel))
      \o attach(k_embeddingModel, Get(args, k_embeddingModel))
      \o attach(k_systemInstructions, Get(args, k_systemInstructions))
      \o attach(k_history, Get(args, k_history)))

serverSearch(args) ==
  LET baseUrl == baseUrlOf(Get(args, k_baseUrl)).v
      u == stripTrailingSlash(baseUrl) \o API_SEARCH
  IN  IF ~Truthy(Get(args, k_query))
      THEN Returns(ToolResult(TRUE, <<"Missing query.">>), u, baseUrl)
      ELSE Fetches(Request("POST", u, JsonHeaders, serverSearchPayload(args)), u,
                   baseUrl, Coalesce(Get(args, k_timeoutMs), DEFAULT_TIMEOUT_MS))

serverHealth(args) ==
  LET baseUrl == baseUrlOf(Get(args, k_baseUrl)).v
      u == stripTrailingSlash(baseUrl) \o API_MODELS
  IN  Fetches(Request("GET", u, <<>>, Undefined), u, baseUrl,
              Coalesce(Get(args, k_timeoutMs), DEFAULT_TIMEOUT_MS))

call(h, raw) ==
  CASE h = "search" -> search(raw)
    [] h = "health" -> health(raw)
    [] h = "server.search" -> serverSearch(raw)
    [] h = "server.health" -> serverHealth(raw)

\* The logger calls of each callback up to its first await
searchLogs(raw) ==
  LET parsed == InputSchema(raw)
      args == parsed.data
      u == stripTrailingSlash(baseUrlOf(args.baseUrl).v) \o API_SEARCH
  IN  entry("debug", <<"perplexica.search invoked">>, Obj(<< <<k_args, redact(raw)>> >>),
            Obj(<< <<k_args, raw>> >>))
        \o (IF ~parsed.success THEN <<>>
            ELSE IF ~Truthy(args.query)
            THEN logged("warn", <<"Missing query in tool input">>, Undefined)
            ELSE entry("debug", <<"Prepared payload for Perplexica API">>,
                     Obj(<< <<k_url, Str(u)>>,
                            <<k_payload, redact(searchPayload(args))>> >>),
                     Obj(<< <<k_url, Str(u)>>,
                            <<k_payload, searchPayload(args)>> >>))
                   \o logged("info", <<"POST /api/search">>,
                          Obj(<< <<k_url, Str(u)>>,
                                 <<k_timeoutMs,
                                   Coalesce(args.timeoutMs, DEFAULT_TIMEOUT_MS)>> >>)))

healthLogs(raw) ==
  LET parsed == HealthInputSchema(raw)
      args == parsed.data
      u == stripTrailingSlash(baseUrlOf(args.baseUrl).v) \o API_MODELS
  IN  entry("debug", <<"perplexica.health invoked">>, Obj(<< <<k_args, redact(raw)>> >>),
            Obj(<< <<k_args, raw>> >>))
        \o (IF ~parsed.success THEN <<>>
            ELSE logged("info", <<"GET /api/models">>,
                     Obj(<< <<k_url, Str(u)>>,
                            <<k_timeoutMs,
                              Coalesce(args.timeoutMs, DEFAULT_TIMEOUT_MS)>> >>)))

serverSearchLogs(args) ==
  LET u == stripTrailingSlash(baseUrlOf(Get(args, k_baseUrl)).v) \o API_SEARCH
  IN  entry("debug", <<"perplexica.search invoked">>, Obj(<< <<k_args, redact(args)>> >>),
            Obj(<< <<k_args, args>> >>))
        \o (IF ~Truthy(Get(args, k_query))
            THEN logged("warn", <<"Missing query in tool input">>, Undefined)
            ELSE entry("debug", <<"Prepared payload for Perplexica API">>,
                     Obj(<< <<k_url, Str(u)>>,
                            <<k_payload, redact(serverSearchPayload(args))>> >>),
                     Obj(<< <<k_url, Str(u)>>,
                            <<k_payload, serverSearchPayload(args)>> >>))
                   \o logged("info", <<"POST /api/search">>,
                          Obj(<< <<k_url, Str(u)>>,
                                 <<k_timeoutMs,
                                   Coalesce(Get(args, k_timeoutMs),
                                            DEFAULT_TIMEOUT_MS)>> >>)))

serverHealthLogs(args) ==
  LET u == stripTrailingSlash(baseUrlOf(Get(args, k_baseUrl)).v) \o API_MODELS
  IN  entry("debug", <<"perplexica.health invoked">>, Obj(<< <<k_args, redact(args)>> >>),
            Obj(<< <<k_args, args>> >>))
        \o logged("info", <<"GET /api/models">>,
               Obj(<< <<k_url, Str(u)>>,
                      <<k_timeoutMs,
                        Coalesce(Get(args, k_timeoutMs), DEFAULT_TIMEOUT_MS)>> >>))

callLogs(h, raw) ==
  CASE h = "search" -> searchLogs(raw)
    [] h = "health" -> healthLogs(raw)
    [] h = "server.search" -> serverSearchLogs(raw)
    [] h = "server.health" -> serverHealthLogs(raw)

-----------------------------------------------------------------------------
(* After the await: the outer catch, the non-OK branch, the JSON branch *)

\* clearTimeout left out
clearTimeoutSkipped(t) == t

\* clearTimeout(tid)
clearTimeout(t) == IF t = "pending" THEN "cleared" ELSE t

\* The catch with the abort recognised under another name
catchErrorNoAbort(err, u, t) ==
  LET cause == Coalesce(err.cause, Obj(<<>>))
      code == IF Truthy(Get(cause, k_code)) THEN Get(cause, k_code) ELSE err.code
  IN  IF err.name = "TimeoutError"
      THEN errorResult("TIMEOUT",
             <<"Request to Perplexica timed out after ">> \o template(t) \o <<"ms.">>,
             Obj(<< <<k_url, Str(u)>>, <<k_timeoutMs, t>> >>))
      ELSE errorResult("NETWORK_ERROR",
             IF Truthy(err.message) THEN err.message.v
             ELSE <<"Network error while reaching Perplexica.">>,
             Obj(<< <<k_url, Str(u)>>, <<k_code, code>> >>))

\* The catch with the timeout told from the error's own code
catchErrorByCode(err, u, t) ==
  LET cause == Coalesce(err.cause, Obj(<<>>))
      code == IF Truthy(Get(cause, k_code)) THEN Get(cause, k_code) ELSE err.code
  IN  IF Truthy(err.code)
      THEN errorResult("TIMEOUT",
             <<"Request to Perplexica timed out after ">> \o template(t) \o <<"ms.">>,
             Obj(<< <<k_url, Str(u)>>, <<k_timeoutMs, t>> >>))
      ELSE errorResult("NETWORK_ERROR",
             IF Truthy(err.message) THEN err.message.v
             ELSE <<"Network error while reaching Perplexica.">>,
             Obj(<< <<k_url, Str(u)>>, <<k_code, code>> >>))

\* catch (e) of "search" and "health", after its clearTimeout
catchError(err, u, t) ==
  IF err.name = "AbortError"
  THEN errorResult("TIMEOUT",
         <<"Request to Perplexica timed out after ">> \o template(t) \o <<"ms.">>,
         Obj(<< <<k_url, Str(u)>>, <<k_timeoutMs, t>> >>))
  ELSE LET cause == Coalesce(err.cause, Obj(<<>>))
           code == IF Truthy(Get(cause, k_code)) THEN Get(cause, k_code)
                   ELSE err.code
       IN  errorResult("NETWORK_ERROR",
             IF Truthy(err.message) THEN err.message.v
             ELSE <<"Network error while reaching Perplexica.">>,
             Obj(<< <<k_url, Str(u)>>, <<k_code, code>> >>))

\* catch (e) of src/server.ts
errMsg(err) ==
  IF err.name = "AbortError" THEN <<"Request aborted (timeout)">>
  ELSE IF Truthy(err.message) THEN err.message.v
  ELSE <<err.name>>

serverCatch(h, err, b) ==
  ToolResult(TRUE,
    IF h = "server.search" THEN <<"Failed to reach Perplexica: ">> \o errMsg(err)
    ELSE <<"Failed to reach Perplexica at ">> \o b \o <<": ">> \o errMsg(err))

catch(h, err, u, b, t) ==
  IF h \in {"search", "health"} THEN catchError(err, u, t)
  ELSE serverCatch(h, err, b)

isOk(status) == 200 <= status /\ status <= 299

\* The non-OK branch with the preview cut where the log line cuts it
notOkShortPreview(h, r, text, u) ==
  IF h \in {"search", "health"}
  THEN errorResult("UPSTREAM_ERROR",
         <<"Perplexica responded with status ", ToString(r.status), ".">>,
         Obj(<< <<k_status, Num(r.status)>>,
                <<k_statusText, Str(r.statusText)>>,
                <<k_bodyPreview, Str(slice0(text, 500))>>,
                <<k_url, Str(u)>> >>))
  ELSE ToolResult(TRUE, <<"Perplexica error ", ToString(r.status), ": ">> \o text)

\* if (!res.ok), with text what `await res.text().catch(() => "")` gave
notOk(h, r, text, u) ==
  CASE h = "search" ->
         errorResult("UPSTREAM_ERROR",
           <<"Perplexica responded with status ", ToString(r.status), ".">>,
           Obj(<< <<k_status, Num(r.status)>>,
                  <<k_statusText, Str(r.statusText)>>,
                  <<k_bodyPreview, Str(slice0(text, 1000))>>,
                  <<k_url, Str(u)>> >>))
    [] h = "health" ->
         errorResult("UPSTREAM_ERROR",
           <<"Perplexica models probe failed with status ", ToString(r.status), ".">>,
           Obj(<< <<k_status, Num(r.status)>>,
                  <<k_statusText, Str(r.statusText)>>,
                  <<k_bodyPreview, Str(slice0(text, 1000))>>,
                  <<k_url, Str(u)>> >>))
    [] h = "server.search" ->
         ToolResult(TRUE,
           <<"Perplexica error ", ToString(r.status), ": ">> \o text)
    [] h = "server.health" ->
         ToolResult(TRUE,
           <<"Perplexica models probe failed ", ToString(r.status), ": ">> \o text)

\* A rejection of res.json() left to the outer catch
jsonFailedUncaught(h, err, u, b, t) == catch(h, err, u, b, t)

\* res.json() rejected with err
jsonFailed(h, err, u, b, t) ==
  CASE h = "search" ->
         errorResult("UPSTREAM_INVALID_JSON",
           <<"Response from Perplexica was not valid JSON.">>,
           Obj(<< <<k_url, Str(u)>> >>))
    [] h = "health" ->
         errorResult("UPSTREAM_INVALID_JSON",
           <<"Response from Perplexica models endpoint was not valid JSON.">>,
           Obj(<< <<k_url, Str(u)>> >>))
    [] h = "server.search" -> serverCatch(h, err, b)
    [] h = "server.health" -> formatHealth(Obj(<<>>), b)

\* res.json() resolved with json
jsonParsed(h, json, b) ==
  CASE h = "search" ->
         LET parsed == SearchResponseSchema(json)
         IN  formatSearch(IF parsed.success THEN parsed.data ELSE Obj(<<>>))
    [] h = "health" ->
         LET parsed == ModelsResponseSchema(json)
             data == IF parsed.success THEN parsed.data ELSE Obj(<<>>)
         IN  formatHealth(Coalesce(Get(data, k_models), Obj(<<>>)), b)
    [] h = "server.search" -> formatSearch(json)
    [] h = "server.health" ->
         formatHealth(IF Truthy(Get(json, k_models)) THEN Get(json, k_models)
                      ELSE Obj(<<>>), b)

\* The logger calls of the continuations

\* logger.error in the catch of each callback
catchLogs(h, err, u, t) ==
  LET cause == Coalesce(err.cause, Obj(<<>>))
      code == IF Truthy(Get(cause, k_code)) THEN Get(cause, k_code) ELSE err.code
  IN  CASE h \in {"search", "health"} /\ err.name = "AbortError" ->
             logged("error",
                 IF h = "search" THEN <<"Search request timed out">>
                 ELSE <<"Models probe timed out">>,
                 Obj(<< <<k_timeoutMs, t>>, <<k_url, Str(u)>> >>))
        [] h \in {"search", "health"} /\ err.name # "AbortError" ->
             logged("error",
                 IF h = "search" THEN <<"Network error calling Perplexica API">>
                 ELSE <<"Network error probing Perplexica models">>,
                 Obj(<< <<k_message, err.message>>, <<k_code, code>> >>))
        [] h = "server.search" ->
             logged("error", <<"Error calling Perplexica API">>,
                 Obj(<< <<k_message, Str(errMsg(err))>> >>))
        [] h = "server.health" ->
             logged("error", <<"Error probing Perplexica models">>,
                 Obj(<< <<k_message, Str(errMsg(err))>> >>))

\* logger.info after fetch resolved
responseLogs(h, r) ==
  logged("info",
      IF h \in {"search", "server.search"} THEN <<"Received response from Perplexica">>
      ELSE <<"Received response from Perplexica (models)">>,
      Obj(<< <<k_status, Num(r.status)>>, <<k_ok, Bool(isOk(r.status))>> >>))

\* logger.warn of the non-OK branch
notOkLogs(h, r, text) ==
  logged("warn",
      IF h \in {"search", "server.search"} THEN <<"Perplexica returned non-OK status">>
      ELSE <<"Models probe returned non-OK status">>,
      Obj(<< <<k_status, Num(r.status)>>,
             <<k_bodyPreview, Str(slice0(text, 500))>> >>))

\* logger.debug("Health probe summary", { providers: providers.length, count })
summaryLogs(models) ==
  logged("debug", <<"Health probe summary">>,
      Obj(<< <<k_providers, Num(Len(keysOf(models)))>>,
             <<k_count, Num(countModels(models, keysOf(models)))>> >>))

jsonFailedLogs(h, err, u, t) ==
  CASE h = "search" ->
         logged("warn", <<"Failed to parse Perplexica JSON">>,
             Obj(<< <<k_message, err.message>> >>))
    [] h = "health" ->
         logged("warn", <<"Failed to parse models JSON">>,
             Obj(<< <<k_message, err.message>> >>))
    [] h = "server.search" -> catchLogs(h, err, u, t)
    [] h = "server.health" -> summaryLogs(Obj(<<>>))

\* parsed.error.issues: the response schemas can only fail on a type, and
\* each issue is kept here by its code alone
issues == Arr(<< Obj(<< <<k_code, Str(<<"invalid_type">>)>> >>) >>)

\* message.length, message?.length ?? 0
lengthOf(v) == IF v.t \in {"string", "array"} THEN Num(Len(v.v)) ELSE Num(0)

parsedLogs(data) ==
  logged("debug", <<"Parsed Perplexica response">>,
      Obj(<< <<k_messageLength,
               lengthOf(Coalesce(Get(data, k_message), Str(<<>>)))>>,
             <<k_sourcesCount,
               IF Get(data, k_sources).t = "array"
               THEN Num(Len(Get(data, k_sources).v)) ELSE Num(0)>> >>))

jsonParsedLogs(h, json) ==
  CASE h = "search" ->
         LET parsed == SearchResponseSchema(json)
         IN  (IF parsed.success THEN <<>>
              ELSE logged("warn", <<"Search response failed validation">>,
                       Obj(<< <<k_issues, issues>> >>)))
               \o parsedLogs(IF parsed.success THEN parsed.data ELSE Obj(<<>>))
    [] h = "health" ->
         LET parsed == ModelsResponseSchema(json)
             data == IF parsed.success THEN parsed.data ELSE Obj(<<>>)
         IN  summaryLogs(Coalesce(Get(data, k_models), Obj(<<>>)))
    [] h = "server.search" -> parsedLogs(json)
    [] h = "server.health" ->
         summaryLogs(IF Truthy(Get(json, k_models)) THEN Get(json, k_models)
                     ELSE Obj(<<>>))

-----------------------------------------------------------------------------
(* What the caller and the upstream can supply *)

put(o, k, v) == Obj(o.v \o << <<k, v>> >>)

baseArgs == Obj(<< <<k_query, Str(<<"q">>)>> >>)

\* A caller's API key and bearer credential
customOpenAIKey == <<"s", "k", "-", "1">>
Authorization == <<"B", "e", "a", "r", "e", "r", " ", "t", "0">>

chatModelArg ==
  Obj(<< <<k_provider, Str(<<"custom_openai">>)>>,
         <<k_name, Str(<<"m">>)>>,
         <<k_customOpenAIKey, Str(customOpenAIKey)>> >>)
embeddingModelArg ==
  Obj(<< <<k_provider, Str(<<"openai">>)>>, <<k_name, Str(<<"e">>)>> >>)
historyArg == Arr(<< Arr(<<Str(<<"human">>), Str(<<"hi">>)>>) >>)

BaseUrlArgs ==
  { Str(<<"h", "t", "t", "p", ":", "/", "/", "h">>), Str(<<"h", "t", "t", "p", ":", "/", "/", "h", "/">>), Str(<<"h", "t", "t", "p", ":", "/", "/", "h", "/", "/">>), Str(<<>>) }
TimeoutArgs == { Num(5), Num(0), Num(-1), Frac(3, 2), Str(<<"5">>) }

SearchArgs ==
  { Obj(<<>>), baseArgs,
    Obj(<< <<k_query, Str(<<>>)>> >>), Obj(<< <<k_query, Num(7)>> >>),
    put(put(put(put(put(baseArgs, k_chatModel, chatModelArg),
                        k_embeddingModel, embeddingModelArg),
                    k_systemInstructions, Str(<<"be brief">>)),
                k_history, historyArg),
            k_stream, Bool(TRUE)) }
  \cup { put(baseArgs, k_focusMode, v) :
           v \in { Str(<<"redditSearch">>), Str(<<"bogus">>) } }
  \cup { put(baseArgs, k_optimizationMode, v) :
           v \in { Str(<<"speed">>), Str(<<"turbo">>) } }
  \cup { put(baseArgs, k_stream, v) : v \in { Bool(TRUE), Bool(FALSE) } }
  \cup { put(baseArgs, k_timeoutMs, v) : v \in TimeoutArgs }
  \cup { put(baseArgs, k_baseUrl, v) : v \in BaseUrlArgs }
  \cup { put(baseArgs, k_chatModel, chatModelArg),
         put(baseArgs, k_embeddingModel, embeddingModelArg) }
  \cup { put(baseArgs, k_systemInstructions, v) :
           v \in { Str(<<>>), Str(<<"be brief">>) } }
  \cup { put(baseArgs, k_history, v) : v \in { Arr(<<>>), historyArg } }
  \cup { put(baseArgs, k_Authorization, Str(Authorization)) }

HealthArgs ==
  { Obj(<<>>) }
  \cup { put(Obj(<<>>), k_timeoutMs, v) : v \in TimeoutArgs }
  \cup { put(Obj(<<>>), k_baseUrl, v) : v \in BaseUrlArgs }

ArgsOf(h) == IF h \in {"search", "server.search"} THEN SearchArgs ELSE HealthArgs

\* Number(process.env.MCP_REQUEST_TIMEOUT_MS): unset, "250", "-5"
EnvTimeouts == { NaN, Num(250), Num(-5) }
\* process.env.MCP_LOG_LEVEL: unset or "debug"
EnvLogLevels == { Undefined, Str(<<"debug">>) }
\* process.env.PERPLEXICA_BASE_URL: unset or set
EnvBaseUrls == { Undefined, Str(<<"h", "t", "t", "p", ":", "/", "/", "p", ":", "1", "/">>) }

Responses ==
  { [status |-> 200, statusText |-> <<"OK">>],
    [status |-> 299, statusText |-> <<>>],
    [status |-> 300, statusText |-> <<"Multiple Choices">>],
    [status |-> 500, statusText |-> <<"Internal Server Error">>] }

\* The longest response body the upstream sends
MaxBodyLen == 1001
TextBodies ==
  { <<>>, <<"b", "o", "o", "m">>, <<"s", "a", "y", " ", "\"", "h", "i", "\"">>,
    <<"b", "a", "d", " ", "k", "e", "y", " ">> \o customOpenAIKey,
    [j \in 1..(MaxBodyLen - 1) |-> "b"],
    [j \in 1..MaxBodyLen |-> IF j = MaxBodyLen THEN "Z" ELSE "a"] }

source(title, u) ==
  Obj(<< <<k_metadata, Obj(<< <<k_title, title>>, <<k_url, u>> >>)>> >>)

JsonBodies ==
  { Obj(<<>>), Null, Arr(<<>>),
    Obj(<< <<k_message, Str(<<"h", "i">>)>> >>),
    Obj(<< <<k_message, Str(<<>>)>>, <<k_sources, Arr(<<>>)>> >>),
    Obj(<< <<k_message, Num(7)>> >>),
    Obj(<< <<k_message, Str(<<"h", "i">>)>>,
           <<k_sources, Arr(<< source(Str(<<"T1">>), Str(<<"u1">>)),
                               Obj(<< <<k_metadata, Obj(<<>>)>> >>),
                               Obj(<<>>) >>)>> >>),
    Obj(<< <<k_message, Str(<<"h", "i">>)>>, <<k_sources, Str(<<"oops">>)>> >>),
    Obj(<< <<k_message, Str(<<"h", "i">>)>>,
           <<k_sources, Arr(<< source(Str(<<"T2">>), Str(<<"u2">>)),
                               source(Str(<<"T1">>), Str(<<"u1">>)),
                               source(Str(<<"T2">>), Str(<<"u2">>)) >>)>> >>),
    Obj(<< <<k_message, Str(<<"h", "i">>)>>,
           <<k_sources, Arr(<< source(Num(5), Str(<<"u1">>)) >>)>> >>),
    Obj(<< <<k_models, Obj(<< <<k_provider, Arr(<<Num(1), Num(2)>>)>>,
                              <<k_name, Arr(<<Num(1)>>)>> >>)>> >>),
    Obj(<< <<k_models, Obj(<< <<k_provider, Arr(<<Num(1), Num(2)>>)>>,
                              <<k_name, Num(5)>> >>)>> >>),
    Obj(<< <<k_models, Null>> >>) }

AbortError ==
  [name |-> "AbortError", message |-> Str(<<"This operation was aborted">>),
   cause |-> Undefined, code |-> Num(20)]
fetchFailed(code) ==
  [name |-> "TypeError", message |-> Str(<<"fetch failed">>),
   cause |-> Obj(<< <<k_code, Str(<<code>>)>> >>), code |-> Undefined]
\* The rejections of fetch other than an abort
NetworkErrors ==
  { fetchFailed("ECONNREFUSED"), fetchFailed("ENOTFOUND"), fetchFailed("ECONNRESET"),
    [name |-> "Error", message |-> Str(<<>>), cause |-> Undefined,
     code |-> Str(<<"EPIPE">>)] }
\* The body stops arriving: res.text() and res.json() reject
ReadError ==
  [name |-> "TypeError", message |-> Str(<<"terminated">>), cause |-> Undefined,
   code |-> Undefined]
\* The body is not JSON: res.json() rejects
SyntaxError ==
  [name |-> "SyntaxError", message |-> Str(<<"Unexpected token < in JSON">>),
   cause |-> Undefined, code |-> Undefined]
JsonErrors == { SyntaxError, ReadError }

-----------------------------------------------------------------------------
(* The state machine *)

\* No callback has been called yet
Idle ==
  /\ handler = [i \in Invocations |-> "search"]
  /\ rawArgs = [i \in Invocations |-> Undefined]
  /\ pc = [i \in Invocations |-> "idle"]
  /\ url = [i \in Invocations |-> <<>>]
  /\ baseUrlUsed = [i \in Invocations |-> <<>>]
  /\ timeout = [i \in Invocations |-> Undefined]
  /\ timer = [i \in Invocations |-> "none"]
  /\ aborted = [i \in Invocations |-> FALSE]
  /\ requests = [i \in Invocations |-> <<>>]
  /\ res = [i \in Invocations |-> NoResponse]
  /\ bodyRead = [i \in Invocations |-> NoBody]
  /\ caught = [i \in Invocations |-> NoError]
  /\ result = [i \in Invocations |-> NoResult]
  /\ thrown = [i \in Invocations |-> NoError]
  /\ logs = [i \in Invocations |-> <<>>]

\* No call of log but the handlers' own
NoCall == [level |-> "none", meta |-> Undefined, lines |-> <<>>, safe |-> Undefined,
           error |-> NoError]
Unused == heap = <<>> /\ lastLog = NoCall

Init ==
  /\ MCP_REQUEST_TIMEOUT_MS \in EnvTimeouts
  /\ PERPLEXICA_BASE_URL \in EnvBaseUrls
  /\ MCP_LOG_LEVEL \in EnvLogLevels
  /\ admitted = {1}
  /\ Idle
  /\ Unused

config == <<MCP_REQUEST_TIMEOUT_MS, PERPLEXICA_BASE_URL, MCP_LOG_LEVEL, admitted>>
\* What a direct call of log reads and leaves
direct == <<heap, lastLog>>

\* console.error receives the lines, in order
write(i, lines) == logs' = [logs EXCEPT ![i] = @ \o lines]

\* The transport calls the callback: everything up to its first await
Invoke(i, h, raw) ==
  /\ i \in admitted
  /\ pc[i] = "idle"
  /\ \E o \in {call(h, raw)} :
         /\ handler' = [handler EXCEPT ![i] = h]
         /\ rawArgs' = [rawArgs EXCEPT ![i] = raw]
         /\ pc' = [pc EXCEPT ![i] = o.pc]
         /\ url' = [url EXCEPT ![i] = o.url]
         /\ baseUrlUsed' = [baseUrlUsed EXCEPT ![i] = o.baseUrl]
         /\ timeout' = [timeout EXCEPT ![i] = o.timeout]
         /\ timer' = [timer EXCEPT ![i] = o.timer]
         /\ requests' = [requests EXCEPT ![i] = o.requests]
         /\ result' = [result EXCEPT ![i] = o.result]
         /\ thrown' = [thrown EXCEPT ![i] = o.thrown]
  /\ write(i, callLogs(h, raw))
  /\ UNCHANGED <<config, direct, aborted, res, bodyRead, caught>>

\* The handler returns r
return(i, r, tm) ==
  /\ pc' = [pc EXCEPT ![i] = "returned"]
  /\ result' = [result EXCEPT ![i] = r]
  /\ timer' = [timer EXCEPT ![i] = tm]

\* One controller held by every invocation
abortShared(i) == aborted' = [j \in Invocations |-> TRUE]

\* ac.abort() on the controller the invocation created
abort(i) == aborted' = [aborted EXCEPT ![i] = TRUE]

\* The deadline passes: () => ac.abort() runs, and the promise the callback
\* awaits is rejected with the signal's AbortError
TimerFires(i) ==
  /\ timer[i] = "pending"
  /\ abort(i)
  /\ CASE pc[i] = "awaitFetch" ->
            /\ return(i, catch(handler[i], AbortError, url[i], baseUrlUsed[i],
                               timeout[i]), "fired")
            /\ caught' = [caught EXCEPT ![i] = AbortError]
            /\ write(i, catchLogs(handler[i], AbortError, url[i], timeout[i]))
            /\ UNCHANGED bodyRead
       [] pc[i] = "awaitText" ->
            /\ return(i, notOk(handler[i], res[i], <<>>, url[i]), "fired")
            /\ bodyRead' = [bodyRead EXCEPT ![i] = FailedBody(AbortError)]
            /\ write(i, notOkLogs(handler[i], res[i], <<>>))
            /\ UNCHANGED caught
       [] pc[i] = "awaitJson" ->
            /\ return(i, jsonFailed(handler[i], AbortError, url[i], baseUrlUsed[i],
                                    timeout[i]), "fired")
            /\ bodyRead' = [bodyRead EXCEPT ![i] = FailedBody(AbortError)]
            /\ caught' = [caught EXCEPT ![i] =
                            IF handler[i] = "server.search" THEN AbortError ELSE @]
            /\ write(i, jsonFailedLogs(handler[i], AbortError, url[i], timeout[i]))
       [] OTHER ->
            /\ timer' = [timer EXCEPT ![i] = "fired"]
            /\ UNCHANGED <<pc, result, bodyRead, caught, logs>>
  /\ UNCHANGED <<config, direct, handler, rawArgs, url, baseUrlUsed, timeout, requests, res,
                 thrown>>

\* fetch rejects for a transport reason: the outer catch
FetchRejects(i, err) ==
  /\ pc[i] = "awaitFetch"
  /\ return(i, catch(handler[i], err, url[i], baseUrlUsed[i], timeout[i]),
            clearTimeout(timer[i]))
  /\ caught' = [caught EXCEPT ![i] = err]
  /\ write(i, catchLogs(handler[i], err, url[i], timeout[i]))
  /\ UNCHANGED <<config, direct, handler, rawArgs, url, baseUrlUsed, timeout, aborted,
                 requests, res, bodyRead, thrown>>

\* fetch resolves with the status line and headers: clearTimeout, then the
\* callback awaits res.text() or res.json()
FetchResolves(i, r) ==
  /\ pc[i] = "awaitFetch"
  /\ res' = [res EXCEPT ![i] = r]
  /\ timer' = [timer EXCEPT ![i] = clearTimeout(timer[i])]
  /\ pc' = [pc EXCEPT ![i] = IF isOk(r.status) THEN "awaitJson" ELSE "awaitText"]
  /\ write(i, responseLogs(handler[i], r))
  /\ UNCHANGED <<config, direct, handler, rawArgs, url, baseUrlUsed, timeout, aborted,
                 requests, bodyRead, caught, result, thrown>>

\* res.text() resolves
TextArrives(i, text) ==
  /\ pc[i] = "awaitText"
  /\ bodyRead' = [bodyRead EXCEPT ![i] = TextBody(text)]
  /\ return(i, notOk(handler[i], res[i], text, url[i]), timer[i])
  /\ write(i, notOkLogs(handler[i], res[i], text))
  /\ UNCHANGED <<config, direct, handler, rawArgs, url, baseUrlUsed, timeout, aborted,
                 requests, res, caught, thrown>>

\* res.text() rejects: .catch(() => "")
TextFails(i, err) ==
  /\ pc[i] = "awaitText"
  /\ bodyRead' = [bodyRead EXCEPT ![i] = FailedBody(err)]
  /\ return(i, notOk(handler[i], res[i], <<>>, url[i]), timer[i])
  /\ write(i, notOkLogs(handler[i], res[i], <<>>))
  /\ UNCHANGED <<config, direct, handler, rawArgs, url, baseUrlUsed, timeout, aborted,
                 requests, res, caught, thrown>>

\* res.json() resolves
JsonArrives(i, json) ==
  /\ pc[i] = "awaitJson"
  /\ bodyRead' = [bodyRead EXCEPT ![i] = JsonBody(json)]
  /\ return(i, jsonParsed(handler[i], json, baseUrlUsed[i]), timer[i])
  /\ write(i, jsonParsedLogs(handler[i], json))
  /\ UNCHANGED <<config, direct, handler, rawArgs, url, baseUrlUsed, timeout, aborted,
                 requests, res, caught, thrown>>

\* res.json() rejects: the inner catch of "search" and "health", the
\* .catch(() => ({})) of "server.health", the outer catch of "server.search"
JsonFails(i, err) ==
  /\ pc[i] = "awaitJson"
  /\ bodyRead' = [bodyRead EXCEPT ![i] = FailedBody(err)]
  /\ return(i, jsonFailed(handler[i], err, url[i], baseUrlUsed[i], timeout[i]),
            IF handler[i] = "server.search" THEN clearTimeout(timer[i]) ELSE timer[i])
  /\ caught' = [caught EXCEPT ![i] = IF handler[i] = "server.search" THEN err ELSE @]
  /\ write(i, jsonFailedLogs(handler[i], err, url[i], timeout[i]))
  /\ UNCHANGED <<config, direct, handler, rawArgs, url, baseUrlUsed, timeout, aborted,
                 requests, res, thrown>>

Next ==
  \E i \in Invocations :
    \/ \E h \in Handlers : \E raw \in ArgsOf(h) : Invoke(i, h, raw)
    \/ TimerFires(i)
    \/ \E err \in NetworkErrors : FetchRejects(i, err)
    \/ \E r \in Responses : FetchResolves(i, r)
    \/ \E text \in TextBodies : TextArrives(i, text)
    \/ TextFails(i, ReadError)
    \/ \E json \in JsonBodies : JsonArrives(i, json)
    \/ \E err \in JsonErrors : JsonFails(i, err)

Spec == Init /\ [][Next]_vars

\* What TimerFires(i) does to the timer: an armed setTimeout runs its callback
TimerExpires(i) ==
  /\ timer[i] = "pending"
  /\ timer' = [timer EXCEPT ![i] = "fired"]

\* An armed deadline eventually fires; nothing obliges the upstream to act.
FairSpec == Spec /\ \A i \in Invocations : WF_timer(TimerExpires(i))

-----------------------------------------------------------------------------
(* Several invocations in flight: the transport hands each call to its      *)
(* callback as it arrives, and the callbacks interleave at their awaits.    *)

ConcurrentArgs(h) ==
  IF h = "search"
  THEN { baseArgs, put(baseArgs, k_timeoutMs, Num(5)),
         put(baseArgs, k_baseUrl, Str(<<"h", "t", "t", "p", ":", "/", "/", "h", "/">>)) }
  ELSE { Obj(<<>>) }

ConcurrentBodies ==
  { Obj(<< <<k_message, Str(<<"h", "i">>)>>,
           <<k_sources, Arr(<< source(Str(<<"T1">>), Str(<<"u1">>)) >>)>> >>),
    Obj(<< <<k_models, Obj(<< <<k_provider, Arr(<<Num(1), Num(2)>>)>> >>)>> >>) }

ConcurrentInit ==
  /\ MCP_REQUEST_TIMEOUT_MS = NaN
  /\ PERPLEXICA_BASE_URL = Undefined
  /\ MCP_LOG_LEVEL = Undefined
  /\ admitted = Invocations
  /\ Idle
  /\ Unused

ConcurrentNext ==
  \E i \in Invocations :
    \/ \E h \in {"search", "health"} : \E raw \in ConcurrentArgs(h) : Invoke(i, h, raw)
    \/ TimerFires(i)
    \/ FetchRejects(i, fetchFailed("ECONNREFUSED"))
    \/ \E r \in {r \in Responses : r.status \in {200, 500}} : FetchResolves(i, r)
    \/ TextArrives(i, <<"b", "o", "o", "m">>)
    \/ TextFails(i, ReadError)
    \/ \E json \in ConcurrentBodies : JsonArrives(i, json)
    \/ JsonFails(i, SyntaxError)

ConcurrentSpec == ConcurrentInit /\ [][ConcurrentNext]_vars

-----------------------------------------------------------------------------
(* The logger called on its own, with values that may hold cycles *)

\* log(level, msg, meta) for a meta that is undefined or a reference into h:
\* the lines written, the redacted value, the store as the call leaves it
\* and the exception that left the call
logRef(h, level, msg, meta) ==
  LET head == <<"[", isoNow, "] ", toUpperCase[level], " ">> \o msg
      safe == redactRef(h, meta)
  IN  IF aboveThreshold(level)
      THEN [lines |-> <<>>, safe |-> Undefined, heap |-> h, error |-> NoError]
      ELSE IF meta.t = "undefined"
      THEN [lines |-> <<head>>, safe |-> Undefined, heap |-> h, error |-> NoError]
      ELSE IF safe.raised
      THEN [lines |-> <<>>, safe |-> Undefined, heap |-> safe.heap, error |-> RangeError]
      ELSE IF Deeper(safe.heap, safe.out, Len(safe.heap))
      THEN [lines |-> <<>>, safe |-> Undefined, heap |-> safe.heap, error |-> TypeError]
      ELSE [lines |-> << head \o <<" ::", " ">>
                           \o stringify(Unfold(safe.heap, safe.out)) >>,
            safe |-> Unfold(safe.heap, safe.out), heap |-> safe.heap,
            error |-> NoError]

\* process.env.MCP_LOG_LEVEL: unset, each level, and names that are no level
LoggerLevels ==
  { Undefined } \cup { Str(<<l>>) : l \in DOMAIN LEVELS }
    \cup { Str(<<"verbose">>), Str(<<"DEBUG">>), Str(<<"constructor">>) }

k_a == <<"a">>
k_token == <<"t", "o", "k", "e", "n">>
\* What an entry of a logged object can hold
HeapValues == { Num(1) } \cup { Ref(o) : o \in Objects }
\* Plain objects of up to two entries, arrays of up to two elements
HeapObjects ==
  { EmptyObject, EmptyArray }
    \cup { [array |-> FALSE, entries |-> << <<k, v>> >>] :
             k \in {k_a, k_token, k_history}, v \in HeapValues }
    \cup { [array |-> FALSE, entries |-> << <<k_a, v>>, <<k, w>> >>] :
             k \in {k_token, k_history}, v \in HeapValues, w \in HeapValues }
    \cup { [array |-> TRUE, entries |-> << <<<<>>, v>> >>] : v \in HeapValues }
    \cup { [array |-> TRUE, entries |-> << <<<<>>, v>>, <<<<>>, w>> >>] :
             v \in HeapValues, w \in HeapValues }

LoggerInit ==
  /\ MCP_REQUEST_TIMEOUT_MS = NaN
  /\ PERPLEXICA_BASE_URL = Undefined
  /\ MCP_LOG_LEVEL \in LoggerLevels
  /\ admitted = {}
  /\ Idle
  /\ heap \in [Objects -> HeapObjects]
  /\ MCP_LOG_LEVEL = Undefined \/ heap = [o \in Objects |-> EmptyObject]
  /\ lastLog = NoCall

\* logger.error / warn / info / debug called with msg and meta; the objects
\* redact made are dropped with the call
Log(level, msg, meta) ==
  LET r == logRef(heap, level, msg, meta)
  IN  /\ lastLog' = [level |-> level, meta |-> meta, lines |-> r.lines,
                     safe |-> r.safe, error |-> r.error]
      /\ heap' = SubSeq(r.heap, 1, NumObjects)
      /\ UNCHANGED <<config, handler, rawArgs, pc, url, baseUrlUsed, timeout, timer,
                     aborted, requests, res, bodyRead, caught, result, thrown, logs>>

LoggerNext ==
  \E level \in DOMAIN LEVELS : \E meta \in {Undefined, Ref(1)} :
    Log(level, <<"m">>, meta)

LoggerSpec == LoggerInit /\ [][LoggerNext]_vars

-----------------------------------------------------------------------------
(* Reading a ToolResult *)

textOf(r) == r.content[1].text

\* The ErrorCode an error result opens with, "none" for any other result
codeOf(r) ==
  IF /\ r.isError
     /\ Len(r.content) = 1
     /\ Len(textOf(r)) >= 3
     /\ textOf(r)[1] = "["
     /\ textOf(r)[2] \in ErrorCode
     /\ textOf(r)[3] = "] "
  THEN textOf(r)[2]
  ELSE "none"

\* "k":v as JSON.stringify writes an entry
jsonEntry(k, v) == <<"\"">> \o k \o <<"\"", ":">> \o stringify(v)

\* The first n characters of s
Prefix(s, n) == [j \in 1..(IF Len(s) < n THEN Len(s) ELSE n) |-> s[j]]

Coded == {"search", "health"}
Started(i) == pc[i] # "idle"
Returned(i) == pc[i] = "returned"

-----------------------------------------------------------------------------
(* Claims *)

\* C1: a perplexica.search invocation whose arguments hold no `query` returns
\* an error result with code VALIDATION_ERROR and issues no HTTP request.
C1_MissingQueryIsValidationError ==
  \A i \in Invocations :
    (Started(i) /\ handler[i] = "search" /\ ~Has(rawArgs[i], k_query))
      => /\ Returned(i)
         /\ codeOf(result[i]) = "VALIDATION_ERROR"
         /\ requests[i] = <<>>

\* C2: every invocation of the search or the health handler ends by returning
\* a result that is a success or an error carrying one of the five ErrorCodes;
\* no failure, a failure of input-schema parsing included, leaves the handler
\* as a thrown exception.
C2_NoFailureLeavesAsException ==
  \A i \in Invocations :
    (Started(i) /\ handler[i] \in Coded)
      => /\ pc[i] # "thrown"
         /\ Returned(i) => (~result[i].isError \/ codeOf(result[i]) \in ErrorCode)

\* C3: an invocation that has issued its HTTP call eventually returns a
\* result, whatever the upstream does, given only that an armed deadline
\* eventually fires.
C3_EventuallyReturns ==
  \A i \in Invocations :
    [](( /\ handler[i] \in Coded
         /\ pc[i] \in {"awaitFetch", "awaitText", "awaitJson"} )
         => <>Returned(i))

\* C4: when the deadline fires before the upstream has delivered a response,
\* the call is aborted and the invocation ends with code TIMEOUT, having
\* issued one request and no second one.
C4_DeadlineBeforeResponseIsTimeout ==
  \A i \in Invocations :
    (handler[i] \in Coded /\ timer[i] = "fired" /\ res[i] = NoResponse)
      => /\ aborted[i]
         /\ Returned(i)
         /\ codeOf(result[i]) = "TIMEOUT"
         /\ Len(requests[i]) = 1

C4_Witness ==
  \E i \in Invocations :
    /\ handler[i] = "search"
    /\ timer[i] = "fired"
    /\ res[i] = NoResponse
    /\ Returned(i)

\* C5: on every exit of a handler the deadline timer that invocation armed is
\* not pending: it was cleared or it has fired.
C5_NoTimerPendingAtExit ==
  \A i \in Invocations :
    pc[i] \in {"returned", "thrown"} => timer[i] # "pending"

C5_Witness ==
  \E i \in Invocations :
    /\ Returned(i)
    /\ timer[i] = "cleared"
    /\ caught[i] = fetchFailed("ECONNREFUSED")

\* C6: an exchange that fails before any response is classified TIMEOUT
\* exactly when the invocation's own deadline signal fired; any other
\* transport failure is NETWORK_ERROR, the lower-level error code appearing
\* only among the details.
C6_TimeoutIffOwnDeadline ==
  \A i \in Invocations :
    (handler[i] \in Coded /\ Returned(i) /\ Len(requests[i]) > 0
       /\ res[i] = NoResponse)
      => /\ codeOf(result[i]) = "TIMEOUT" <=> aborted[i]
         /\ ~aborted[i] => codeOf(result[i]) = "NETWORK_ERROR"
         /\ \A c \in {"ECONNREFUSED", "ENOTFOUND", "ECONNRESET"} :
              caught[i] = fetchFailed(c)
                => Includes(textOf(result[i]), jsonEntry(k_code, Str(<<c>>)))

C6_Witness ==
  \E i \in Invocations :
    /\ handler[i] = "health"
    /\ Returned(i)
    /\ caught[i] = fetchFailed("ECONNRESET")
    /\ ~aborted[i]

\* C7: a response whose status is outside 200-299 gives an error result with
\* code UPSTREAM_ERROR whose details hold that status and, as body preview,
\* the first (at most 1000) characters of the body; when the body cannot be
\* read the preview is empty.
C7_NonOkIsUpstreamError ==
  \A i \in Invocations :
    (handler[i] \in Coded /\ Returned(i) /\ res[i] # NoResponse
       /\ ~isOk(res[i].status))
      => /\ codeOf(result[i]) = "UPSTREAM_ERROR"
         /\ Includes(textOf(result[i]), jsonEntry(k_status, Num(res[i].status)))
         /\ Includes(textOf(result[i]),
                     jsonEntry(k_bodyPreview,
                               Str(IF bodyRead[i].kind = "text"
                                   THEN Prefix(bodyRead[i].text, 1000)
                                   ELSE <<>>)) \o <<",">>)

C7_Witness ==
  \E i \in Invocations :
    /\ handler[i] = "search"
    /\ Returned(i)
    /\ res[i].status = 500
    /\ bodyRead[i].kind = "text"
    /\ Len(bodyRead[i].text) > 1000

\* C8: a response with a 2xx status whose body is not JSON gives an error
\* result with code UPSTREAM_INVALID_JSON, never a success (the two handlers
\* with error codes, and the health handler of src/server.ts).
C8_UnparseableBodyIsInvalidJson ==
  \A i \in Invocations :
    (handler[i] \in Coded \cup {"server.health"} /\ Returned(i)
       /\ isOk(res[i].status) /\ bodyRead[i].kind = "failed"
       /\ bodyRead[i].error = SyntaxError)
      => /\ result[i].isError
         /\ codeOf(result[i]) = "UPSTREAM_INVALID_JSON"

\* C9: a 2xx response whose body is JSON of another shape than expected gives
\* a success that still carries every recognisable field of the body: a text
\* message, a sequence of sources, a models mapping.
C9_RecognisableFieldsAreCarried ==
  \A i \in Invocations :
    (handler[i] \in Coded /\ Returned(i) /\ isOk(res[i].status)
       /\ bodyRead[i].kind = "json")
      => LET json == bodyRead[i].json
             text == textOf(result[i])
             message == Get(json, k_message)
             sources == Get(json, k_sources)
             models == Get(json, k_models)
         IN  /\ ~result[i].isError
             /\ (handler[i] = "search" /\ message.t = "string" /\ message.v # <<>>)
                  => Prefix(text, Len(message.v)) = message.v
             /\ (handler[i] = "search" /\ sources.t = "array" /\ sources.v # <<>>)
                  => Includes(text, <<"\n\n---\n\nSources:\n", "1", ". **">>)
             /\ (handler[i] = "health" /\ models.t = "object")
                  => Includes(text, <<". Providers: ", ToString(Len(models.v))>>)

\* C10: the `stream` field of the payload sent upstream is false, whether the
\* caller passed stream = true, stream = false or no stream.
C10_StreamIsFalse ==
  \A i \in Invocations :
    handler[i] \in {"search", "server.search"}
      => \A n \in 1..Len(requests[i]) :
           /\ Get(requests[i][n].payload, k_stream) = Bool(FALSE)
           /\ Includes(requests[i][n].body, jsonEntry(k_stream, Bool(FALSE)))
           /\ ~Includes(requests[i][n].body, jsonEntry(k_stream, Bool(TRUE)))

C10_Witness ==
  \E i \in Invocations :
    /\ handler[i] = "search"
    /\ Get(rawArgs[i], k_stream) = Bool(TRUE)
    /\ Len(requests[i]) = 1

\* C11: for each optional field of a search request (chatModel,
\* embeddingModel, systemInstructions, history), the built payload lacks the
\* field when the caller omitted it and holds it, equal to the supplied value,
\* when the caller supplied it.
C11_OptionalFieldsAsSupplied ==
  \A i \in Invocations :
    handler[i] = "search"
      => \A n \in 1..Len(requests[i]) :
           \A k \in {k_chatModel, k_embeddingModel, k_systemInstructions, k_history} :
             IF Has(rawArgs[i], k)
             THEN /\ Has(requests[i][n].payload, k)
                  /\ Get(requests[i][n].payload, k) = Get(rawArgs[i], k)
             ELSE ~Has(requests[i][n].payload, k)

\* The last n characters of s
Suffix(s, n) == IF Len(s) < n THEN s ELSE SubSeq(s, Len(s) - n + 1, Len(s))

\* C12: an invocation issues at most one HTTP request over its whole life, and
\* exactly one once its input has passed validation: a POST to /api/search
\* for search, a GET to /api/models for health; no failure is followed by a
\* second request.
C12_OneRequest ==
  \A i \in Invocations :
    handler[i] \in Coded
      => /\ Len(requests[i]) <= 1
         /\ ( /\ Started(i)
              /\ pc[i] # "thrown"
              /\ ~(Returned(i) /\ codeOf(result[i]) = "VALIDATION_ERROR") )
              => /\ Len(requests[i]) = 1
                 /\ requests[i][1].url = url[i]
                 /\ IF handler[i] = "search"
                    THEN /\ requests[i][1].method = "POST"
                         /\ Suffix(url[i], Len(API_SEARCH)) = API_SEARCH
                    ELSE /\ requests[i][1].method = "GET"
                         /\ Suffix(url[i], Len(API_MODELS)) = API_MODELS

C12_Witness ==
  \E i \in Invocations :
    /\ handler[i] = "health"
    /\ Returned(i)
    /\ codeOf(result[i]) = "NETWORK_ERROR"
    /\ Len(requests[i]) = 1

\* The schema constraints of the arguments that raw violates
Violates(h, raw) ==
  \/ /\ h = "search"
     /\ \/ ~Has(raw, k_query)
        \/ Get(raw, k_query) = Str(<<>>)
        \/ /\ Has(raw, k_focusMode)
           /\ Get(raw, k_focusMode) \notin {Str(m) : m \in focusModeEnum}
        \/ /\ Has(raw, k_optimizationMode)
           /\ Get(raw, k_optimizationMode) \notin {Str(m) : m \in optimizationModeEnum}
  \/ /\ Has(raw, k_timeoutMs)
     /\ LET t == Get(raw, k_timeoutMs)
        IN  ~(t.t = "number" /\ t.d = 1 /\ t.n > 0)

\* C13: whenever the arguments violate a schema constraint (query missing or
\* empty, focusMode or optimizationMode outside its enumeration, timeoutMs
\* not a positive integer), the invocation issues no HTTP request and arms no
\* deadline timer.
C13_NoNetworkBeforeValidation ==
  \A i \in Invocations :
    (handler[i] \in Coded /\ Started(i) /\ Violates(handler[i], rawArgs[i]))
      => /\ requests[i] = <<>>
         /\ timer[i] = "none"
         /\ pc[i] \in {"thrown", "returned"}

C13_Witness ==
  \E i \in Invocations :
    /\ handler[i] = "health"
    /\ Get(rawArgs[i], k_timeoutMs) = Num(0)
    /\ pc[i] = "thrown"

\* A response body whose message and sources have the types of the upstream
\* reply: message text or absent, each source a record whose metadata, title
\* and url are absent or of their type
TypedMessage(json) == Get(json, k_message).t \in {"undefined", "string"}
TypedSource(src) ==
  /\ src.t = "object"
  /\ \/ Get(src, k_metadata).t = "undefined"
     \/ /\ Get(src, k_metadata).t = "object"
        /\ Get(Get(src, k_metadata), k_title).t \in {"undefined", "string"}
        /\ Get(Get(src, k_metadata), k_url).t \in {"undefined", "string"}
TextOr(v, d) == IF v.t = "string" THEN v.v ELSE d

\* i. **title**: url
SourceLine(i, src) ==
  <<ToString(i), ". **">>
    \o TextOr(Get(Get(src, k_metadata), k_title), <<"Untitled">>)
    \o <<"**: ">>
    \o TextOr(Get(Get(src, k_metadata), k_url), <<>>)

SearchSucceeded(i) ==
  /\ Returned(i)
  /\ res[i] # NoResponse
  /\ isOk(res[i].status)
  /\ bodyRead[i].kind = "json"

C15_NoSourcesRendersMessage ==
  \A i \in Invocations :
    LET json == bodyRead[i].json
        sources == Get(json, k_sources)
        message == Get(json, k_message)
    IN  ( /\ handler[i] = "search"
          /\ SearchSucceeded(i)
          /\ TypedMessage(json)
          /\ sources.t = "undefined" \/ sources = Arr(<<>>) )
          => /\ ~result[i].isError
             /\ textOf(result[i]) =
                  IF message.t = "string" /\ message.v # <<>> THEN message.v
                  ELSE <<"No message returned.">>
             /\ ~Includes(textOf(result[i]), <<"\n\n---\n\nSources:\n">>)

C15_Witness ==
  \E i \in Invocations :
    /\ handler[i] = "search"
    /\ SearchSucceeded(i)
    /\ Get(bodyRead[i].json, k_message) = Str(<<>>)
    /\ Get(bodyRead[i].json, k_sources) = Arr(<<>>)
    /\ textOf(result[i]) = <<"No message returned.">>

\* The sum of the lengths of the entries' values that are sequences
RECURSIVE ModelCount(_)
ModelCount(entries) ==
  IF entries = <<>> THEN 0
  ELSE (IF Head(entries)[2].t = "array" THEN Len(Head(entries)[2].v) ELSE 0)
       + ModelCount(Tail(entries))

HealthSucceeded(i) ==
  /\ handler[i] = "health"
  /\ Returned(i)
  /\ res[i] # NoResponse
  /\ isOk(res[i].status)
  /\ bodyRead[i].kind = "json"

\* C16: a successful health probe reports as providers the number of keys of
\* the response's models mapping and as total models the sum of the lengths
\* of the values that are sequences; a key whose value is not a sequence adds
\* no model and is still counted as a provider.
C16_HealthCounts ==
  \A i \in Invocations :
    LET models == Get(bodyRead[i].json, k_models)
    IN  (HealthSucceeded(i) /\ models.t = "object")
          => /\ ~result[i].isError
             /\ Includes(textOf(result[i]),
                         <<". Providers: ", ToString(Len(models.v)),
                           ", total models: ", ToString(ModelCount(models.v)), ".">>)

\* The keys of the modelled payloads whose names match the secret-name
\* pattern, and the values stored under them at any depth of v
SecretNamed == {k_customOpenAIKey, k_Authorization}
RECURSIVE SecretValues(_)
SecretValues(v) ==
  CASE v.t = "array" -> UNION {SecretValues(v.v[j]) : j \in 1..Len(v.v)}
    [] v.t = "object" ->
         UNION { IF v.v[j][1] \in SecretNamed THEN {v.v[j][2]}
                 ELSE SecretValues(v.v[j][2]) : j \in 1..Len(v.v) }
    [] OTHER -> {}

\* How a value reads inside a serialization
Written(v) == IF v.t = "string" THEN JsonEscape(v.v) ELSE stringify(v)

\* C17: no line a log call emits contains the value stored, at any depth of
\* the data the call carries, under a key whose name matches the secret-name
\* pattern.
C17_SecretsNeverLogged ==
  \A i \in Invocations :
    \A n \in 1..Len(logs[i]) :
      \A v \in SecretValues(logs[i][n].carried) :
        ~Includes(logs[i][n].line, Written(v))

C17_Witness ==
  \E i \in Invocations :
    \E n \in 1..Len(logs[i]) :
      /\ Get(Get(Get(logs[i][n].carried, k_payload), k_chatModel), k_customOpenAIKey)
           = Str(customOpenAIKey)
      /\ Includes(logs[i][n].line,
                  jsonEntry(k_customOpenAIKey, Str(<<"[REDACTED]">>)))

\* The sequences stored under a key named history at any depth of v
RECURSIVE HistoryValues(_)
HistoryValues(v) ==
  CASE v.t = "array" -> UNION {HistoryValues(v.v[j]) : j \in 1..Len(v.v)}
    [] v.t = "object" ->
         UNION { IF v.v[j][1] = k_history /\ v.v[j][2].t = "array" THEN {v.v[j][2]}
                 ELSE HistoryValues(v.v[j][2]) : j \in 1..Len(v.v) }
    [] OTHER -> {}

C19_NoSecretInResult ==
  \A i \in Invocations :
    LET key == Get(Get(rawArgs[i], k_chatModel), k_customOpenAIKey)
    IN  (handler[i] \in Coded /\ Returned(i) /\ key.t = "string")
          => ~Includes(textOf(result[i]), JsonEscape(key.v))

\* C20: a failure is a ToolResult flagged as an error with one text block
\* that begins with [CODE] for one ErrorCode and a message, followed by the
\* JSON dump of the details exactly when details were given; a success is
\* one text block that is not flagged as an error.
C20_ResultShape ==
  \A i \in Invocations :
    (handler[i] \in Coded /\ Returned(i))
      => LET r == result[i]
             text == textOf(r)
             succeeded == /\ res[i] # NoResponse
                          /\ isOk(res[i].status)
                          /\ bodyRead[i].kind = "json"
         IN  /\ Len(r.content) = 1
             /\ r.content[1].type = "text"
             /\ r.isError <=> ~succeeded
             /\ ~r.isError => codeOf(r) = "none"
             /\ r.isError =>
                  /\ codeOf(r) \in ErrorCode
                  /\ Len(text) >= 4
                  /\ IF codeOf(r) = "VALIDATION_ERROR"
                     THEN /\ Len(text) = 4
                          /\ ~Includes(text, <<"Details:">>)
                     ELSE /\ Includes(text, <<"\n", "\n", "Details:", "\n", "{">>)
                          /\ Includes(text, jsonEntry(k_url, Str(url[i])))
                          /\ text[Len(text)] = "}"

C20_Witness ==
  \E i \in Invocations :
    /\ handler[i] = "search"
    /\ Returned(i)
    /\ codeOf(result[i]) = "UPSTREAM_INVALID_JSON"

\* C21: the URL of the HTTP call is the request's baseUrl without its
\* trailing slash followed by /api/search for search and /api/models for
\* health, and it holds no doubled slash before `api`, for any baseUrl.
C21_NoDoubledSlashBeforeApi ==
  \A i \in Invocations :
    (handler[i] \in Coded /\ Len(requests[i]) > 0)
      => LET path == IF handler[i] = "search" THEN API_SEARCH ELSE API_MODELS
             target == requests[i][1].url
         IN  /\ Suffix(target, Len(path)) = path
             /\ ~Includes(target, <<"/", "/", "a", "p", "i">>)

C23_DeadlineAbortsOnlyItsOwnCall ==
  \A j \in Invocations :
    /\ aborted[j] => timer[j] = "fired"
    /\ (handler[j] \in Coded /\ Returned(j) /\ codeOf(result[j]) = "TIMEOUT")
         => timer[j] = "fired"

C23_Witness ==
  \E i, j \in Invocations :
    /\ i # j
    /\ timer[i] = "fired"
    /\ codeOf(result[i]) = "TIMEOUT"
    /\ pc[j] = "awaitFetch"
    /\ timer[j] = "pending"
    /\ ~aborted[j]

\* C24: an invocation yields control at one point only, the network call:
\* once its call has returned a response, classification and formatting run
\* with no further suspension, so no other invocation takes a step before
\* the result is returned.
C24_SingleSuspensionPoint ==
  [][\A i \in Invocations :
       (handler[i] \in Coded /\ res[i] # NoResponse /\ ~Returned(i))
         => \A j \in Invocations \ {i} : pc'[j] = pc[j]]_vars

\* C25: when a handler has armed its deadline and issued the HTTP call, the
\* delay it gave the timer is a positive integer, whether timeoutMs was
\* supplied or omitted and whatever MCP_REQUEST_TIMEOUT_MS holds.
C25_TimeoutIsPositiveInteger ==
  \A i \in Invocations :
    (handler[i] \in Coded /\ (timer[i] # "none" \/ Len(requests[i]) > 0))
      => /\ timeout[i].t = "number"
         /\ timeout[i].d = 1
         /\ timeout[i].n >= 1

C25_Witness ==
  \E i \in Invocations :
    /\ handler[i] \in Coded
    /\ Get(rawArgs[i], k_timeoutMs) = Undefined
    /\ MCP_REQUEST_TIMEOUT_MS = Num(250)
    /\ Len(requests[i]) > 0
    /\ timeout[i] = Num(250)

\* C26: for every valid search request the payload's focusMode and
\* optimizationMode belong to their enumerations: each is the caller's value
\* when supplied, and "webSearch" and "balanced" when omitted, whatever the
\* environment holds.
C26_ModesAsSuppliedOrDefault ==
  \A i \in Invocations :
    (handler[i] \in {"search", "server.search"} /\ ~Violates("search", rawArgs[i]))
      => \A n \in 1..Len(requests[i]) :
           LET payload == requests[i][n].payload
               focusMode == Get(payload, k_focusMode)
               optimizationMode == Get(payload, k_optimizationMode)
           IN  /\ focusMode \in {Str(m) : m \in focusModeEnum}
               /\ optimizationMode \in {Str(m) : m \in optimizationModeEnum}
               /\ focusMode = IF Has(rawArgs[i], k_focusMode)
                              THEN Get(rawArgs[i], k_focusMode)
                              ELSE Str(<<"webSearch">>)
               /\ optimizationMode = IF Has(rawArgs[i], k_optimizationMode)
                                     THEN Get(rawArgs[i], k_optimizationMode)
                                     ELSE Str(<<"balanced">>)
               /\ Includes(requests[i][n].body, jsonEntry(k_focusMode, focusMode))
               /\ Includes(requests[i][n].body,
                           jsonEntry(k_optimizationMode, optimizationMode))

C26_Witness ==
  \E i \in Invocations :
    /\ handler[i] = "search"
    /\ Get(rawArgs[i], k_optimizationMode) = Str(<<"speed">>)
    /\ ~Has(rawArgs[i], k_focusMode)
    /\ MCP_REQUEST_TIMEOUT_MS = Num(250)
    /\ PERPLEXICA_BASE_URL # Undefined
    /\ Len(requests[i]) = 1
    /\ Get(requests[i][1].payload, k_optimizationMode) = Str(<<"speed">>)
    /\ Get(requests[i][1].payload, k_focusMode) = Str(<<"webSearch">>)

\* The configured minimum as the levels' order has it: the level named by
\* MCP_LOG_LEVEL, info when it is unset or names none of the four levels
ConfiguredMinimum ==
  IF MCP_LOG_LEVEL.t = "string" /\ Len(MCP_LOG_LEVEL.v) = 1
       /\ MCP_LOG_LEVEL.v[1] \in DOMAIN LEVELS
  THEN LEVELS[MCP_LOG_LEVEL.v[1]]
  ELSE LEVELS.info

\* C27: a call of log writes a line if and only if its level is at or below
\* the configured minimum in the order error < warn < info < debug, the
\* minimum being info when MCP_LOG_LEVEL is unset or is none of the four
\* levels.
C27_EmitsIffAtOrBelowMinimum ==
  lastLog.level # "none"
    => (lastLog.lines # <<>> <=> LEVELS[lastLog.level] <= ConfiguredMinimum)

\* Ways down a logged value: the entry to take at each object on the way
Ways == UNION { [1..n -> 1..2] : n \in 1..(NumObjects + 1) }

\* What the first n steps of way w lead to in the store, from the logged
\* value; undefined where an object has no such entry
RECURSIVE Reached(_, _)
Reached(w, n) ==
  IF n = 0 THEN lastLog.meta
  ELSE LET from == Reached(w, n - 1)
       IN  IF from.t = "ref" /\ w[n] <= Len(heap[from.id].entries)
           THEN heap[from.id].entries[w[n]][2]
           ELSE Undefined

\* The same steps taken in the redacted value
RECURSIVE Redacted(_, _)
Redacted(w, n) ==
  IF n = 0 THEN lastLog.safe
  ELSE LET from == Redacted(w, n - 1)
       IN  IF from.t = "array" /\ w[n] <= Len(from.v) THEN from.v[w[n]]
           ELSE IF from.t = "object" /\ w[n] <= Len(from.v) THEN from.v[w[n]][2]
           ELSE Undefined

\* Step n of way w takes an entry whose value walk does not enter: one with
\* a secret name, or a history array
Masked(w, n) ==
  LET from == Reached(w, n - 1)
      k == heap[from.id].entries[w[n]][1]
  IN  /\ from.t = "ref" /\ ~heap[from.id].array
      /\ w[n] <= Len(heap[from.id].entries)
      /\ SecretKey(k) \/ (k = k_history /\ isArray(heap, Reached(w, n)))

\* Way w ends in a back-reference: it passes through objects, no two the
\* same, and its last step leads to one of them again
BackReference(w) ==
  LET n == Len(w)
  IN  /\ \A m \in 0..n : Reached(w, m).t = "ref"
      /\ \A m1, m2 \in 0..(n - 1) : m1 # m2 => Reached(w, m1) # Reached(w, m2)
      /\ \E m \in 0..(n - 1) : Reached(w, m) = Reached(w, n)

\* log was called with a reference and went on to redact it
RedactCalled ==
  /\ lastLog.level # "none"
  /\ lastLog.meta.t = "ref"
  /\ ~aboveThreshold(lastLog.level)

\* C28: for every logged value that holds a cycle, redact returns without
\* raising and the line is written, and along every way that walk follows to
\* a back-reference (no step of it has a secret name or is a history array)
\* the redacted value has objects and arrays up to the circular marker, which
\* stands where the back-reference was or where walk met an object again
\* before it.
C28_CyclesEndInMarker ==
  RedactCalled
    => /\ lastLog.error = NoError
       /\ lastLog.lines # <<>>
       /\ \A w \in Ways :
            (BackReference(w) /\ \A n \in 1..Len(w) : ~Masked(w, n))
              => \E n \in 1..Len(w) :
                   /\ Redacted(w, n) = Circular
                   /\ \A m \in 0..(n - 1) : Redacted(w, m).t \in {"object", "array"}

C28_Witness ==
  /\ RedactCalled
  /\ heap[1] = [array |-> FALSE, entries |-> << <<k_a, Ref(2)>> >>]
  /\ heap[2] = [array |-> TRUE, entries |-> << <<<<>>, Num(1)>>, <<<<>>, Ref(1)>> >>]
  /\ lastLog.safe = Obj(<< <<k_a, Arr(<<Num(1), Circular>>)>> >>)
  /\ lastLog.error = NoError

\* C29: redact leaves its argument as it was: after the handler has passed
\* rawArgs and then the payload to redact, the arguments it validates are
\* the caller's (a valid call is not rejected), and the payload and the body
\* it sends hold the caller's chatModel with its customOpenAIKey and the
\* caller's whole history.
C29_RedactLeavesArgumentsIntact ==
  \A i \in Invocations :
    (handler[i] = "search" /\ Started(i))
      => /\ InputSchema(rawArgs[i]).success => pc[i] # "thrown"
         /\ \A n \in 1..Len(requests[i]) :
              /\ Has(rawArgs[i], k_chatModel)
                   => /\ Get(requests[i][n].payload, k_chatModel)
                           = Get(rawArgs[i], k_chatModel)
                      /\ Includes(requests[i][n].body,
                                  jsonEntry(k_chatModel, Get(rawArgs[i], k_chatModel)))
              /\ Has(rawArgs[i], k_history)
                   => /\ Get(requests[i][n].payload, k_history)
                           = Get(rawArgs[i], k_history)
                      /\ Includes(requests[i][n].body,
                                  jsonEntry(k_history, Get(rawArgs[i], k_history)))

C29_Witness ==
  \E i \in Invocations :
    /\ handler[i] = "search"
    /\ Get(Get(rawArgs[i], k_chatModel), k_customOpenAIKey) = Str(customOpenAIKey)
    /\ Get(rawArgs[i], k_history) = historyArg
    /\ Len(requests[i]) = 1
    /\ Includes(requests[i][1].body,
                jsonEntry(k_customOpenAIKey, Str(customOpenAIKey)))
    /\ \E n \in 1..Len(logs[i]) :
         /\ Includes(logs[i][n].line,
                     jsonEntry(k_customOpenAIKey, Str(<<"[REDACTED]">>)))
         /\ Includes(logs[i][n].line, jsonEntry(k_history, Str(<<"len=", "1">>)))

\* C30: a result with code TIMEOUT or NETWORK_ERROR is returned only by an
\* invocation whose fetch gave no response; once the status has been
\* received the result is a success, UPSTREAM_ERROR or UPSTREAM_INVALID_JSON,
\* also when reading the body fails in the transport.
C30_TransportCodesOnlyBeforeStatus ==
  \A i \in Invocations :
    (handler[i] \in Coded /\ Returned(i))
      => /\ codeOf(result[i]) \in {"TIMEOUT", "NETWORK_ERROR"} => res[i] = NoResponse
         /\ res[i] # NoResponse
              => \/ ~result[i].isError
                 \/ codeOf(result[i]) \in {"UPSTREAM_ERROR", "UPSTREAM_INVALID_JSON"}
         /\ (res[i] # NoResponse /\ bodyRead[i].kind = "failed")
              => codeOf(result[i]) = IF isOk(res[i].status)
                                     THEN "UPSTREAM_INVALID_JSON"
                                     ELSE "UPSTREAM_ERROR"

C30_Witness ==
  \E i \in Invocations :
    /\ handler[i] = "search"
    /\ Returned(i)
    /\ res[i].status = 200
    /\ bodyRead[i] = FailedBody(ReadError)
    /\ codeOf(result[i]) = "UPSTREAM_INVALID_JSON"

\* C31: redact puts the circular marker in place of a nested object only if
\* that object is one of its own ancestors on the way walk took to it; an
\* object referenced from two places without a cycle is rendered whole at
\* both.
C31_MarkerOnlyForAncestors ==
  (RedactCalled /\ lastLog.error = NoError)
    => \A w \in Ways :
         Redacted(w, Len(w)) = Circular
           => \E m \in 0..(Len(w) - 1) : Reached(w, m) = Reached(w, Len(w))

\* C32: redact is idempotent: redacting a redacted value gives it back, so
\* a line whose data the handler redacted before log redacted it again is
\* the line that one redaction of the data gives.
C32_RedactIsIdempotent ==
  \A i \in Invocations :
    \A n \in 1..Len(logs[i]) :
      LET x == logs[i][n].carried
      IN  x.t # "undefined"
            => \A r \in {redact(x)} :
                 /\ redact(r) = r
                 /\ \A once \in {stringify(r)} :
                      Suffix(logs[i][n].line, Len(once)) = once

C32_Witness ==
  \E i \in Invocations :
    \E n \in 1..Len(logs[i]) :
      LET args == Get(logs[i][n].carried, k_args)
      IN  /\ handler[i] = "search"
          /\ Get(args, k_history) = historyArg
          /\ Get(Get(args, k_chatModel), k_customOpenAIKey) = Str(customOpenAIKey)
          /\ redact(args) # args
          /\ Suffix(logs[i][n].line, Len(stringify(redact(logs[i][n].carried))))
               = stringify(redact(logs[i][n].carried))

====
